---- MODULE Spec2Model ----
(***************************************************************************)
(* Model of the rowboat multi-agent orchestrator                           *)
(* (apps/rowboat/app/lib/agents.ts): streamResponse and its helpers.       *)
(* The completion provider is a black box: every event it may stream is a  *)
(* nondeterministic input of the event handlers.                           *)
(***************************************************************************)
EXTENDS Integers, Sequences, FiniteSets, TLC

(* ------------------------------ bounds --------------------------------- *)
\* longest caller-supplied transcript
MaxInputLen == 2
\* provider events consumed in one invocation
MaxSteps == 2
\* provider invocations (iterations of turnLoop) in one invocation
MaxIter == 2
\* longest chain unwound in the delegation scenario
MaxChainSteps == 5
\* longest caller transcript of the stack-reconstruction runs
MaxStackInputLen == 4

\* tool executions followed within one provider stream
MaxToolRuns == 2
MaxCalls == 2
MaxFlows == 2

(* ------------------------------ values --------------------------------- *)
NULL == "<null>"
UNDEFINED == "<undefined>"
\* JavaScript falsiness of a string-or-null-or-undefined value
Falsy(v) == v \in {"", NULL, UNDEFINED}

Agents == {"A", "B", "C"}
Visibility == {"user_facing", "internal"}

DEFAULT_SYSTEM_MESSAGE == "You are a helpful assistant."
DEFAULT_GREETING == "How can I help you today?"
TRANSFER_TOOL == "transfer_to_agent"
HANDOFF_PREFIX == "transfer_to"

NoTokens == [total |-> 0, prompt |-> 0, completion |-> 0]

(* ------------------------------ messages ------------------------------- *)
\* One record shape for the five Message variants; fields a variant does not
\* have are UNDEFINED (strings), <<>> (toolCalls) or 0 (toolCallId).
SystemMessage(c) ==
    [role |-> "system", content |-> c, agentName |-> UNDEFINED,
     responseType |-> UNDEFINED, toolCalls |-> <<>>, toolCallId |-> 0,
     toolName |-> UNDEFINED]
UserMessage(c) ==
    [role |-> "user", content |-> c, agentName |-> UNDEFINED,
     responseType |-> UNDEFINED, toolCalls |-> <<>>, toolCallId |-> 0,
     toolName |-> UNDEFINED]
AssistantMessage(c, a, rt) ==
    [role |-> "assistant", content |-> c, agentName |-> a,
     responseType |-> rt, toolCalls |-> <<>>, toolCallId |-> 0,
     toolName |-> UNDEFINED]
AssistantMessageWithToolCalls(a, id, fn, args) ==
    [role |-> "assistant", content |-> NULL, agentName |-> a,
     responseType |-> UNDEFINED,
     toolCalls |-> << [id |-> id, name |-> fn, arguments |-> args] >>,
     toolCallId |-> 0, toolName |-> UNDEFINED]
ToolMessage(c, id, fn) ==
    [role |-> "tool", content |-> c, agentName |-> UNDEFINED,
     responseType |-> UNDEFINED, toolCalls |-> <<>>, toolCallId |-> id,
     toolName |-> fn]

\* events yielded to the caller: ZOutMessage | ZUsage
NoMsg == [role |-> "none", content |-> NULL, agentName |-> UNDEFINED,
          responseType |-> UNDEFINED, toolCalls |-> <<>>, toolCallId |-> 0,
          toolName |-> UNDEFINED]
MessageEvent(m) == [kind |-> "message", msg |-> m, tokens |-> NoTokens]
UsageEvent(t) == [kind |-> "usage", msg |-> NoMsg, tokens |-> t]

(* ------------------------------ helpers -------------------------------- *)
Last(s) == s[Len(s)]
Front(s) == SubSeq(s, 1, Len(s) - 1)
StartsWith(s, p) == Len(s) >= Len(p) /\ SubSeq(s, 1, Len(p)) = p

RECURSIVE SeqsUpTo(_, _)
SeqsUpTo(S, n) ==
    IF n = 0 THEN { <<>> }
    ELSE LET shorter == SeqsUpTo(S, n - 1)
         IN  shorter \cup { Append(s, x) : s \in { t \in shorter : Len(t) = n - 1 }, x \in S }

(* --------------------------- pure functions ---------------------------- *)
\* system-message repair that forgets the blank-content case
ensureSystemMessage_noBlankFix(msgs) ==
    IF Len(msgs) > 0 /\ msgs[1].role # "system"
    THEN << SystemMessage(DEFAULT_SYSTEM_MESSAGE) >> \o msgs
    ELSE msgs

\* ensureSystemMessage: unshift a default system message when the first
\* message is not a system message, then replace a blank leading content.
ensureSystemMessage(msgs) ==
    LET unshifted ==
            IF Len(msgs) > 0 /\ msgs[1].role # "system"
            THEN << SystemMessage(DEFAULT_SYSTEM_MESSAGE) >> \o msgs
            ELSE msgs
    IN  IF Len(unshifted) > 0 /\ unshifted[1].role = "system" /\ Falsy(unshifted[1].content)
        THEN [unshifted EXCEPT ![1].content = DEFAULT_SYSTEM_MESSAGE]
        ELSE unshifted

\* stack reconstruction that keeps immediate repeats
createAgentCallStack_noCollapse(msgs) ==
    LET tagged(m) == m.role = "assistant" /\ ~Falsy(m.agentName)
        ts == SelectSeq(msgs, tagged)
    IN  [i \in 1..Len(ts) |-> ts[i].agentName]

RECURSIVE createAgentCallStack(_)
\* createAgentCallStack: agent-tagged assistant messages, immediate repeats skipped
createAgentCallStack(msgs) ==
    IF msgs = <<>> THEN <<>>
    ELSE LET st == createAgentCallStack(Front(msgs))
             msg == Last(msgs)
         IN  IF msg.role = "assistant" /\ ~Falsy(msg.agentName)
             THEN IF Len(st) > 0 /\ Last(st) = msg.agentName THEN st
                  ELSE Append(st, msg.agentName)
             ELSE st

\* next-agent choice that always falls back to the start agent
getNextAgentName_startOnly(st, wf) ==
    [name |-> wf.startAgent, stack |-> IF st = <<>> THEN <<>> ELSE Front(st)]

\* getNextAgentName: stack.pop() || workflow.startAgent; the pop is a side effect
getNextAgentName(st, wf) ==
    IF st = <<>> THEN [name |-> wf.startAgent, stack |-> <<>>]
    ELSE [name |-> Last(st), stack |-> Front(st)]

\* JSON.stringify({ assistant: toAgent })
transferPayload(toAgent) == "{\"assistant\":\"" \o toAgent \o "\"}"

\* createTransferEvents: the synthetic transfer_to_agent call and its result
createTransferEvents(fromAgent, toAgent, toolCallId) ==
    << AssistantMessageWithToolCalls(fromAgent, toolCallId, TRANSFER_TOOL,
                                     transferPayload(toAgent)),
       ToolMessage(transferPayload(toAgent), toolCallId, TRANSFER_TOOL) >>

\* AgentTransferCounter: the key `${fromAgent}:${toAgent}` of a pair
counterKey(fromAgent, toAgent) == fromAgent \o ":" \o toAgent

\* counter that books a transfer under the reversed pair
increment_reversed(counter, fromAgent, toAgent) ==
    [counter EXCEPT ![counterKey(toAgent, fromAgent)] = @ + 1]

\* AgentTransferCounter.increment
increment(counter, fromAgent, toAgent) ==
    [counter EXCEPT ![counterKey(fromAgent, toAgent)] = @ + 1]

\* AgentTransferCounter.get
get(counter, fromAgent, toAgent) == counter[counterKey(fromAgent, toAgent)]

\* UsageTracker.increment
usageIncrement(u, total, prompt, completion) ==
    [total |-> u.total + total, prompt |-> u.prompt + prompt,
     completion |-> u.completion + completion]

\* the greeting text of emitGreetingTurn:
\* workflow.prompts.find(p => p.type === 'greeting')?.prompt || default
RECURSIVE findGreeting(_)
findGreeting(prompts) ==
    IF prompts = <<>> THEN UNDEFINED
    ELSE IF prompts[1].type = "greeting" THEN prompts[1].prompt
    ELSE findGreeting(Tail(prompts))
\* greeting that ignores the configured prompt
greetingPrompt_alwaysDefault(wf) == DEFAULT_GREETING

greetingPrompt(wf) ==
    IF Falsy(findGreeting(wf.prompts)) THEN DEFAULT_GREETING ELSE findGreeting(wf.prompts)

\* emitGreetingTurn: the two events of the greeting shortcut
emitGreetingTurn(wf) ==
    << MessageEvent(AssistantMessage(greetingPrompt(wf), wf.startAgent, "external")),
       UsageEvent(NoTokens) >>

\* convertMsgsInput: provider input items; tool messages and assistant
\* messages with falsy content are dropped
RECURSIVE convertMsgsInput(_)
convertMsgsInput(msgs) ==
    IF msgs = <<>> THEN <<>>
    ELSE LET rest == convertMsgsInput(Front(msgs))
             msg == Last(msgs)
         IN  IF msg.role = "assistant" /\ ~Falsy(msg.content)
             THEN Append(rest, [role |-> "assistant", sender |-> msg.agentName, text |-> msg.content])
             ELSE IF msg.role \in {"user", "system"}
             THEN Append(rest, [role |-> msg.role, sender |-> UNDEFINED, text |-> msg.content])
             ELSE rest

\* turn-completion test that forgets the null-content check
turnComplete_anyContent(msgs, name, wf) ==
    /\ name \in DOMAIN wf.agentConfig
    /\ wf.agentConfig[name].outputVisibility = "user_facing"
    /\ Len(msgs) > 0
    /\ Last(msgs).role = "assistant"
    /\ Last(msgs).agentName = name

\* the turn-completion test at the end of a provider stream
turnComplete(msgs, name, wf) ==
    /\ name \in DOMAIN wf.agentConfig
    /\ wf.agentConfig[name].outputVisibility = "user_facing"
    /\ Len(msgs) > 0
    /\ Last(msgs).role = "assistant"
    /\ Last(msgs).content # NULL
    /\ Last(msgs).agentName = name

\* isInternal of the message-output handler
isInternal(name, wf) ==
    name \in DOMAIN wf.agentConfig /\ wf.agentConfig[name].outputVisibility = "internal"

(* ------------------------------ inputs --------------------------------- *)
\* the mention graph of the agents' instructions: A mentions itself and B,
\* B mentions C, C mentions nobody
Mentions == [a \in Agents |->
                IF a = "A" THEN {"A", "B"} ELSE IF a = "B" THEN {"C"} ELSE {}]

PromptChoices ==
    { <<>>,
      << [type |-> "greeting", prompt |-> ""] >>,
      << [type |-> "base_prompt", prompt |-> "Be brief."],
         [type |-> "greeting", prompt |-> "Welcome!"],
         [type |-> "greeting", prompt |-> "Hi again."] >> }

\* an optional list is absent (<<>>) or present (<< list >>, a 1-tuple);
\* optLength is config.ragDataSources?.length, 0 standing for a falsy value
Absent == <<>>
optLength(o) == IF o = Absent THEN 0 ELSE Len(o[1])

\* WorkflowAgent: the fields the orchestrator reads
WorkflowAgent(vis, sources, returnType) ==
    [outputVisibility |-> vis, ragDataSources |-> sources, ragReturnType |-> returnType]

\* WorkflowTool: the three kind markers and the optional auth metadata
NoComposioData == [present |-> FALSE, slug |-> "", toolkitSlug |-> "", noAuth |-> FALSE]
ComposioData(slug, toolkitSlug, noAuth) ==
    [present |-> TRUE, slug |-> slug, toolkitSlug |-> toolkitSlug, noAuth |-> noAuth]
WorkflowTool(name, isMcp, isComposio, mockTool, data) ==
    [name |-> name, isMcp |-> isMcp, isComposio |-> isComposio, mockTool |-> mockTool,
     composioData |-> data]
MockLookup == WorkflowTool("lookup", FALSE, FALSE, TRUE, NoComposioData)
McpSearch == WorkflowTool("search", TRUE, FALSE, FALSE, NoComposioData)
ComposioMail ==
    WorkflowTool("mail", FALSE, TRUE, FALSE, ComposioData("GMAIL_SEND", "gmail", FALSE))
ComposioNews ==
    WorkflowTool("news", FALSE, TRUE, FALSE, ComposioData("HN_TOP", "hackernews", TRUE))
ComposioMailNoData == WorkflowTool("mail", FALSE, TRUE, FALSE, NoComposioData)
DualMarked == WorkflowTool("dual", TRUE, TRUE, FALSE, NoComposioData)

PlainAgents(vis) == [a \in DOMAIN vis |-> WorkflowAgent(vis[a], Absent, UNDEFINED)]
ToolMentionsOf(a, names) == [b \in Agents |-> IF b = a THEN names ELSE {}]

\* three plain agents in every visibility combination, no tools
Workflows ==
    { [startAgent |-> "A",
       agentConfig |-> PlainAgents(vis),
       mentions |-> Mentions,
       prompts |-> p,
       tools |-> <<>>,
       toolMentions |-> ToolMentionsOf("A", {})] : vis \in [Agents -> Visibility], p \in PromptChoices }

\* a single agent A; the start agent or a name of the transcript may be unknown
SingleAgentWorkflows ==
    { [startAgent |-> s,
       agentConfig |-> PlainAgents([a \in {"A"} |-> v]),
       mentions |-> Mentions,
       prompts |-> p,
       tools |-> <<>>,
       toolMentions |-> ToolMentionsOf("A", {})] :
         s \in {"A", "B"}, v \in Visibility, p \in PromptChoices }

\* A is user_facing, B and C are internal
ChainVisibility == [a \in Agents |-> IF a = "A" THEN "user_facing" ELSE "internal"]

\* one user_facing agent A with the given RAG settings
RagAgent(sources, returnType) ==
    [a \in {"A"} |-> WorkflowAgent("user_facing", sources, returnType)]

\* every kind of tool; A searches two data sources
AllToolsSetup ==
    [agentConfig |-> RagAgent(<< << "ds1", "ds2" >> >>, "content"),
     tools |-> << MockLookup, McpSearch, DualMarked,
                  \* no marker at all
                  WorkflowTool("legacy", FALSE, FALSE, FALSE, NoComposioData) >>,
     projectTools |-> << ComposioMail, ComposioNews,
                         \* marked as a Composio tool and as a mock
                         WorkflowTool("both", FALSE, TRUE, TRUE,
                                      ComposioData("HN_NEW", "hackernews", TRUE)) >>,
     toolMentions |-> ToolMentionsOf("A", {"lookup", "search", "dual", "mail", "news",
                                           "legacy", "both"})]

\* workflows with tools and RAG settings, each with its project tools
ToolSetups ==
    { AllToolsSetup,
      \* a project tool replaces the workflow tool of the same name; A has
      \* RAG settings and an empty data-source list
      [agentConfig |-> RagAgent(<< <<>> >>, "content"),
       tools |-> << ComposioMailNoData >>,
       projectTools |-> << ComposioMail >>,
       toolMentions |-> ToolMentionsOf("A", {"mail"})],
      \* A has RAG settings and no data-source list
      [agentConfig |-> RagAgent(Absent, "chunks"),
       tools |-> << MockLookup >>,
       projectTools |-> <<>>,
       toolMentions |-> ToolMentionsOf("A", {"lookup"})],
      \* a project tool without auth metadata that no agent mentions
      [agentConfig |-> RagAgent(Absent, UNDEFINED),
       tools |-> << MockLookup >>,
       projectTools |-> << ComposioMailNoData >>,
       toolMentions |-> ToolMentionsOf("A", {"lookup"})],
      \* a workflow tool without auth metadata that A mentions
      [agentConfig |-> RagAgent(Absent, UNDEFINED),
       tools |-> << ComposioMailNoData >>,
       projectTools |-> <<>>,
       toolMentions |-> ToolMentionsOf("A", {"mail"})],
      \* a project tool without auth metadata replaces a complete workflow tool
      [agentConfig |-> RagAgent(<< << "ds1" >> >>, "chunks"),
       tools |-> << ComposioMail >>,
       projectTools |-> << ComposioMailNoData >>,
       toolMentions |-> ToolMentionsOf("A", {})],
      \* names defined twice inside one list: the complete 'mail' follows the
      \* incomplete one, a mock 'search' follows the MCP one
      [agentConfig |-> RagAgent(Absent, UNDEFINED),
       tools |-> << ComposioMailNoData, ComposioMail, MockLookup >>,
       projectTools |-> << McpSearch, WorkflowTool("search", FALSE, FALSE, TRUE, NoComposioData) >>,
       toolMentions |-> ToolMentionsOf("A", {"mail", "search"})] }

ToolWorkflow(s, p) ==
    [startAgent |-> "A", agentConfig |-> s.agentConfig, mentions |-> Mentions,
     prompts |-> p, tools |-> s.tools, toolMentions |-> s.toolMentions]

\* the (workflow, projectTools) arguments of the invocations that vary the
\* configuration: a single agent, unknown names, tools, RAG settings
ConfigInvocations ==
    { [workflow |-> w, projectTools |-> <<>>] : w \in SingleAgentWorkflows }
    \cup { [workflow |-> ToolWorkflow(s, p), projectTools |-> s.projectTools] :
              s \in ToolSetups, p \in PromptChoices }

InputAlphabet ==
    { SystemMessage(""), SystemMessage("Be kind."), UserMessage("Hi"),
      AssistantMessage("earlier", "A", "external"),
      AssistantMessage("earlier", "B", "external") }
\* caller transcripts: a system message, if any, comes first
Transcripts ==
    { t \in SeqsUpTo(InputAlphabet, MaxInputLen) :
        \A i \in 2..Len(t) : t[i].role # "system" }

\* what a provider stream can carry
FunctionCall(id, fn) == [type |-> "function_call", callId |-> id, name |-> fn, arguments |-> "{}"]
OutputChoices ==
    { <<>>,
      << FunctionCall(101, "lookup"),
         [type |-> "message", callId |-> 0, name |-> "", arguments |-> ""],
         FunctionCall(102, "transfer_to_B"), FunctionCall(103, "search") >> }
UsageBlocks ==
    { [totalTokens |-> 3, inputTokens |-> 2, outputTokens |-> 1] }
TextChoices == { << "t" >>, << "t", "u" >> }

(* ------------------------------ state ---------------------------------- *)
VARIABLES
    workflow,     \* the immutable Workflow of this invocation
    projectTools, \* the project-level tool definitions of this invocation
    project,      \* the stored project document
    dataSources,  \* the stored data-source documents of the project
    conns,        \* MCP connections that are open
    toolRuns,     \* the tool-handler executions that have returned or raised
    input,        \* the caller's messages array as passed in
    messages,     \* the caller's messages array (repaired in place)
    turnMsgs,     \* the running transcript of the turn
    stack,        \* the agent call stack
    agentName,    \* the active agent
    usage,        \* usageTracker
    calls,        \* transferCounter
    iter,         \* loop counter
    inputs,       \* provider input of the current provider run
    emitted,      \* events yielded to the caller so far
    pc,           \* "start" | "top" | "stream" | "done" | "failed"
    path,         \* "none" | "greeting" | "build" | "loop"
    consumed,     \* provider events consumed so far, in order
    last,         \* kind of the step taken last
    response,     \* what getResponse has returned to its caller
    remote,       \* the connected accounts held by the remote Composio service
    procs,        \* the connected-account server actions called so far
    flows         \* the OAuth flows started from ToolkitAuthModal

\* what the orchestrator itself never writes
toolVars == << project, dataSources, conns, toolRuns >>

\* what lives outside streamResponse and its tools
outerVars == << response, remote, procs, flows >>

\* what the connected-account actions and the modal leave alone
runVars == << workflow, projectTools, dataSources, conns, toolRuns, input, messages,
              turnMsgs, stack, agentName, usage, calls, iter, inputs, emitted, pc,
              path, consumed, last >>

vars == << outerVars, workflow, projectTools, toolVars, input, messages, turnMsgs, stack,
           agentName, usage, calls, iter, inputs, emitted, pc, path, consumed, last >>

\* the compiled agent graph of createAgents: one runtime agent per config,
\* hand-off edges to the mentioned agents that exist
agents(wf) == DOMAIN wf.agentConfig
handoffs(wf, a) == IF a \in agents(wf) THEN wf.mentions[a] \cap agents(wf) ELSE {}

NameSpace == Agents
ZeroCalls == [k \in { counterKey(a, b) : a \in NameSpace, b \in NameSpace } |-> 0]

\* number of transfer pairs created so far: the next synthetic tool-call id
nextUUID == 1 + Cardinality({ i \in 1..Len(turnMsgs) :
                 turnMsgs[i].role = "tool" /\ turnMsgs[i].toolName = TRANSFER_TOOL
                 /\ i > Len(messages) })

\* the stored project: its connected accounts by toolkit slug
Toolkits == {"gmail", "hackernews"}
NoAccount == [id |-> UNDEFINED, status |-> UNDEFINED, authConfigId |-> UNDEFINED,
              createdAt |-> 0, lastUpdatedAt |-> 0]
Account(id, status) == [id |-> id, status |-> status, authConfigId |-> "ac_managed",
                        createdAt |-> 0, lastUpdatedAt |-> 0]
NoAccounts == [t \in Toolkits |-> NoAccount]
Project(accounts) == [exists |-> TRUE, composioConnectedAccounts |-> accounts]
NoProject == [exists |-> FALSE, composioConnectedAccounts |-> NoAccounts]

\* the time of the store: one tick per write of a connected-account action
now == 1 + Cardinality({ i \in 1..Len(procs) : procs[i].wrote # UNDEFINED })

\* the remote service: the connected accounts it knows, by id, in the order
\* in which it hands out new ids
AccountIds == << "ca_1", "ca_new" >>
RemoteStatuses == {"INITIALIZING", "INITIATED", "ACTIVE", "FAILED", "EXPIRED", "INACTIVE"}
\* the remote accounts behind the stored records of a project
remoteOf(proj) ==
    [id \in { AccountIds[k] : k \in 1..Len(AccountIds) } |->
        IF \E t \in Toolkits : proj.composioConnectedAccounts[t].id = id
        THEN LET t == CHOOSE t \in Toolkits : proj.composioConnectedAccounts[t].id = id
             IN  [state |-> "live", status |-> proj.composioConnectedAccounts[t].status,
                  toolkit |-> t]
        ELSE [state |-> "none", status |-> UNDEFINED, toolkit |-> UNDEFINED]]

\* the locals of streamResponse before its first statement
InitLocals ==
    /\ messages = input
    /\ turnMsgs = <<>>
    /\ stack = <<>>
    /\ agentName = UNDEFINED
    /\ usage = NoTokens
    /\ calls = ZeroCalls
    /\ iter = 0
    /\ inputs = <<>>
    /\ emitted = <<>>
    /\ pc = "start"
    /\ path = "none"
    /\ consumed = <<>>
    /\ last = "init"
    /\ response = [returned |-> FALSE, messages |-> <<>>, usage |-> NoTokens]
    /\ remote = remoteOf(project)
    /\ procs = <<>>
    /\ flows = <<>>

Init ==
    /\ workflow \in Workflows
    /\ projectTools = <<>>
    /\ project = Project(NoAccounts)
    /\ dataSources = {}
    /\ conns = 0
    /\ toolRuns = <<>>
    /\ input \in Transcripts
    \* the prompts are read by emitGreetingTurn only
    /\ Len(ensureSystemMessage(input)) = 1 \/ workflow.prompts = <<>>
    /\ InitLocals

\* invocations of the workflows that vary the configuration
InitConfig ==
    /\ \E i \in ConfigInvocations : workflow = i.workflow /\ projectTools = i.projectTools
    /\ project = Project(NoAccounts)
    /\ dataSources = {}
    /\ conns = 0
    /\ toolRuns = <<>>
    /\ input \in Transcripts
    /\ Len(ensureSystemMessage(input)) = 1 \/ workflow.prompts = <<>>
    /\ InitLocals

(* ------------------------------ actions -------------------------------- *)
\* provider events, one record shape
ResponseDoneEvent(out, u) ==
    [type |-> "response_done", output |-> out, usage |-> u, target |-> UNDEFINED,
     texts |-> <<>>, agent |-> agentName, next |-> agentName, iter |-> iter]
HandoffEvent(t) ==
    [type |-> "handoff_occurred", output |-> <<>>,
     usage |-> [totalTokens |-> 0, inputTokens |-> 0, outputTokens |-> 0],
     target |-> t, texts |-> <<>>, agent |-> agentName, next |-> t, iter |-> iter]
ToolCallOutputEvent(txt) ==
    [type |-> "tool_call_output_item", output |-> <<>>,
     usage |-> [totalTokens |-> 0, inputTokens |-> 0, outputTokens |-> 0],
     target |-> UNDEFINED, texts |-> << txt >>, agent |-> agentName,
     next |-> agentName, iter |-> iter]
MessageOutputEvent(txts, nxt) ==
    [type |-> "message_output_item", output |-> <<>>,
     usage |-> [totalTokens |-> 0, inputTokens |-> 0, outputTokens |-> 0],
     target |-> UNDEFINED, texts |-> txts, agent |-> agentName, next |-> nxt,
     iter |-> iter]

\* the messages synthesized from the function calls of one completed response
RECURSIVE toolCallMessages(_, _)
toolCallMessages(out, name) ==
    IF out = <<>> THEN <<>>
    ELSE LET rest == toolCallMessages(Front(out), name)
             o == Last(out)
         IN  IF o.type = "function_call" /\ ~StartsWith(o.name, HANDOFF_PREFIX)
             THEN Append(rest, AssistantMessageWithToolCalls(name, o.callId, o.name, o.arguments))
             ELSE rest

\* text messages that are tagged external whatever the agent's visibility
textMessages_alwaysExternal(txts, name, wf) ==
    [i \in 1..Len(txts) |-> AssistantMessage(txts[i], name, "external")]

\* the text messages synthesized from one message-output item
textMessages(txts, name, wf) ==
    [i \in 1..Len(txts) |->
        AssistantMessage(txts[i], name, IF isInternal(name, wf) THEN "internal" ELSE "external")]

asEvents(msgs) == [i \in 1..Len(msgs) |-> MessageEvent(msgs[i])]

\* merge in which the first definition of a name wins
toolConfig_firstWins(wf, pt) ==
    LET all == wf.tools \o pt
    IN  [n \in { all[i].name : i \in 1..Len(all) } |->
            all[CHOOSE i \in 1..Len(all) :
                    all[i].name = n /\ \A j \in 1..Len(all) : all[j].name = n => i <= j]]

\* mapConfig: the tools by name, a later definition replacing an earlier one
toolConfig(wf, pt) ==
    LET all == wf.tools \o pt
    IN  [n \in { all[i].name : i \in 1..Len(all) } |->
            all[CHOOSE i \in 1..Len(all) :
                    all[i].name = n /\ \A j \in 1..Len(all) : all[j].name = n => j <= i]]

\* createTools that tests the Composio marker before the MCP marker
toolKind_composioFirst(config) ==
    IF config.isComposio THEN "composio"
    ELSE IF config.isMcp THEN "mcp"
    ELSE IF config.mockTool THEN "mock"
    ELSE "unsupported"

\* the branch createTools takes for one tool definition
toolKind(config) ==
    IF config.isMcp THEN "mcp"
    ELSE IF config.isComposio THEN "composio"
    ELSE IF config.mockTool THEN "mock"
    ELSE "unsupported"

createComposioToolThrows(config) == ~config.composioData.present

\* createTools that builds only the tools some agent mentions
createToolsThrows_mentionedOnly(wf, tc) ==
    \E n \in DOMAIN tc :
        /\ \E a \in DOMAIN wf.agentConfig : n \in wf.toolMentions[a]
        /\ toolKind(tc[n]) = "composio"
        /\ createComposioToolThrows(tc[n])

\* createTools builds every tool of the merged configuration
createToolsThrows(wf, tc) ==
    \E n \in DOMAIN tc : toolKind(tc[n]) = "composio" /\ createComposioToolThrows(tc[n])

\* the names createTools returns a runtime tool for
tools(tc) == { n \in DOMAIN tc : toolKind(tc[n]) # "unsupported" }

createRagToolThrows(config) == optLength(config.ragDataSources) = 0

\* createAgent that builds the RAG tool whenever RAG settings are present
createAgentThrows_ragAlways(config) ==
    /\ config.ragDataSources # Absent \/ config.ragReturnType # UNDEFINED
    /\ createRagToolThrows(config)

\* createAgent builds the RAG tool only for a non-empty data-source list
createAgentThrows(config) ==
    /\ optLength(config.ragDataSources) > 0
    /\ createRagToolThrows(config)

createAgentsThrows(wf) == \E a \in DOMAIN wf.agentConfig : createAgentThrows(wf.agentConfig[a])

RAG_TOOL == "rag_search"
\* the tools createAgent binds to an agent
agentTools(wf, pt, a) ==
    (wf.toolMentions[a] \cap tools(toolConfig(wf, pt)))
    \cup (IF optLength(wf.agentConfig[a].ragDataSources) > 0 THEN {RAG_TOOL} ELSE {})

\* streamResponse that builds tools and agents before the greeting test
Start_buildFirst ==
    /\ pc = "start"
    /\ messages' = ensureSystemMessage(messages)
    /\ LET st == createAgentCallStack(messages')
           nx == getNextAgentName(st, workflow)
       IN  IF \/ createToolsThrows(workflow, toolConfig(workflow, projectTools))
              \/ createAgentsThrows(workflow)
           THEN /\ stack' = st
                /\ pc' = "failed"
                /\ path' = "build"
                /\ UNCHANGED << turnMsgs, agentName, emitted >>
           ELSE IF Len(messages') = 1 /\ messages'[1].role = "system"
           THEN /\ emitted' = emitGreetingTurn(workflow)
                /\ pc' = "done"
                /\ path' = "greeting"
                /\ UNCHANGED << turnMsgs, stack, agentName >>
           ELSE /\ agentName' = nx.name
                /\ stack' = nx.stack
                /\ turnMsgs' = messages'
                /\ pc' = "top"
                /\ path' = "loop"
                /\ UNCHANGED emitted
    /\ last' = "start"
    /\ UNCHANGED << outerVars, workflow, projectTools, toolVars, input, usage, calls, iter, inputs, consumed >>

\* streamResponse up to the loop: repair, greeting shortcut or set-up
Start ==
    /\ pc = "start"
    /\ messages' = ensureSystemMessage(messages)
    /\ IF Len(messages') = 1 /\ messages'[1].role = "system"
       THEN /\ emitted' = emitGreetingTurn(workflow)
            /\ pc' = "done"
            /\ path' = "greeting"
            /\ UNCHANGED << turnMsgs, stack, agentName >>
       ELSE LET st == createAgentCallStack(messages')
                nx == getNextAgentName(st, workflow)
            IN  IF \/ createToolsThrows(workflow, toolConfig(workflow, projectTools))
                   \/ createAgentsThrows(workflow)
                THEN /\ stack' = st
                     /\ pc' = "failed"
                     /\ path' = "build"
                     /\ UNCHANGED << turnMsgs, agentName, emitted >>
                ELSE /\ agentName' = nx.name
                     /\ stack' = nx.stack
                     /\ turnMsgs' = messages'
                     /\ pc' = "top"
                     /\ path' = "loop"
                     /\ UNCHANGED emitted
    /\ last' = "start"
    /\ UNCHANGED << outerVars, workflow, projectTools, toolVars, input, usage, calls, iter, inputs, consumed >>

\* loop top that runs the provider without resolving the agent name
LoopTop_noCheck ==
    /\ pc = "top"
    /\ iter' = iter + 1
    /\ inputs' = convertMsgsInput(turnMsgs)
    /\ pc' = "stream"
    /\ last' = "top"
    /\ UNCHANGED << outerVars, workflow, projectTools, toolVars, input, messages, turnMsgs, stack,
                    agentName, usage, calls, emitted, path, consumed >>

\* top of turnLoop: resolve the agent, convert the transcript, run the agent
LoopTop ==
    /\ pc = "top"
    /\ iter' = iter + 1
    /\ IF agentName \notin agents(workflow)
       THEN /\ pc' = "failed"
            /\ UNCHANGED inputs
       ELSE /\ inputs' = convertMsgsInput(turnMsgs)
            /\ pc' = "stream"
    /\ last' = "top"
    /\ UNCHANGED << outerVars, workflow, projectTools, toolVars, input, messages, turnMsgs, stack, agentName, usage,
                    calls, emitted, path, consumed >>

\* response_done handler that counts the usage block once per output item
ResponseDone_perOutput(out, u) ==
    /\ pc = "stream"
    /\ LET ms == toolCallMessages(out, agentName)
       IN  /\ turnMsgs' = turnMsgs \o ms
           /\ emitted' = emitted \o asEvents(ms)
    /\ usage' = usageIncrement(usage, Len(out) * u.totalTokens, Len(out) * u.inputTokens,
                               Len(out) * u.outputTokens)
    /\ consumed' = Append(consumed, ResponseDoneEvent(out, u))
    /\ last' = "response_done"
    /\ UNCHANGED << outerVars, workflow, projectTools, toolVars, input, messages, stack, agentName, calls, iter, inputs, pc, path >>

\* response_done handler that also records the transfer_to_* calls
ResponseDone_keepTransfers(out, u) ==
    /\ pc = "stream"
    /\ LET ms == [i \in 1..Len(out) |->
                    AssistantMessageWithToolCalls(agentName, out[i].callId, out[i].name,
                                                  out[i].arguments)]
       IN  /\ turnMsgs' = turnMsgs \o ms
           /\ emitted' = emitted \o asEvents(ms)
    /\ usage' = usageIncrement(usage, u.totalTokens, u.inputTokens, u.outputTokens)
    /\ consumed' = Append(consumed, ResponseDoneEvent(out, u))
    /\ last' = "response_done"
    /\ UNCHANGED << outerVars, workflow, projectTools, toolVars, input, messages, stack, agentName, calls, iter, inputs, pc, path >>

\* raw_model_stream_event / response_done
ResponseDone(out, u) ==
    /\ pc = "stream"
    /\ LET ms == toolCallMessages(out, agentName)
       IN  /\ turnMsgs' = turnMsgs \o ms
           /\ emitted' = emitted \o asEvents(ms)
    /\ usage' = usageIncrement(usage, u.totalTokens, u.inputTokens, u.outputTokens)
    /\ consumed' = Append(consumed, ResponseDoneEvent(out, u))
    /\ last' = "response_done"
    /\ UNCHANGED << outerVars, workflow, projectTools, toolVars, input, messages, stack, agentName, calls, iter, inputs, pc, path >>

\* handoff handler without the same-agent skip
HandoffOccurred_noSkip(target) ==
    /\ pc = "stream"
    /\ consumed' = Append(consumed, HandoffEvent(target))
    /\ LET pair == createTransferEvents(agentName, target, nextUUID)
       IN  /\ turnMsgs' = turnMsgs \o pair
           /\ emitted' = emitted \o asEvents(pair)
           /\ calls' = increment(calls, agentName, target)
           /\ stack' = Append(stack, agentName)
           /\ agentName' = target
           /\ last' = IF agentName = target THEN "handoff_skipped" ELSE "handoff"
    /\ UNCHANGED << outerVars, workflow, projectTools, toolVars, input, messages, usage, iter, inputs, pc, path >>

\* handoff handler that yields the transfer result before the transfer call
HandoffOccurred_resultFirst(target) ==
    /\ pc = "stream"
    /\ consumed' = Append(consumed, HandoffEvent(target))
    /\ IF agentName = target
       THEN /\ last' = "handoff_skipped"
            /\ UNCHANGED << turnMsgs, emitted, calls, stack, agentName >>
       ELSE LET pair == createTransferEvents(agentName, target, nextUUID)
            IN  /\ turnMsgs' = turnMsgs \o pair
                /\ emitted' = emitted \o << MessageEvent(pair[2]), MessageEvent(pair[1]) >>
                /\ calls' = increment(calls, agentName, target)
                /\ stack' = Append(stack, agentName)
                /\ agentName' = target
                /\ last' = "handoff"
    /\ UNCHANGED << outerVars, workflow, projectTools, toolVars, input, messages, usage, iter, inputs, pc, path >>

\* handoff handler that records the transfer but keeps the old agent active
HandoffOccurred_noSwitch(target) ==
    /\ pc = "stream"
    /\ consumed' = Append(consumed, HandoffEvent(target))
    /\ IF agentName = target
       THEN /\ last' = "handoff_skipped"
            /\ UNCHANGED << turnMsgs, emitted, calls, stack, agentName >>
       ELSE LET pair == createTransferEvents(agentName, target, nextUUID)
            IN  /\ turnMsgs' = turnMsgs \o pair
                /\ emitted' = emitted \o asEvents(pair)
                /\ calls' = increment(calls, agentName, target)
                /\ stack' = Append(stack, agentName)
                /\ agentName' = agentName
                /\ last' = "handoff"
    /\ UNCHANGED << outerVars, workflow, projectTools, toolVars, input, messages, usage, iter, inputs, pc, path >>

\* handoff handler that switches agents without pushing the caller
HandoffOccurred_noPush(target) ==
    /\ pc = "stream"
    /\ consumed' = Append(consumed, HandoffEvent(target))
    /\ IF agentName = target
       THEN /\ last' = "handoff_skipped"
            /\ UNCHANGED << turnMsgs, emitted, calls, stack, agentName >>
       ELSE LET pair == createTransferEvents(agentName, target, nextUUID)
            IN  /\ turnMsgs' = turnMsgs \o pair
                /\ emitted' = emitted \o asEvents(pair)
                /\ calls' = increment(calls, agentName, target)
                /\ stack' = stack
                /\ agentName' = target
                /\ last' = "handoff"
    /\ UNCHANGED << outerVars, workflow, projectTools, toolVars, input, messages, usage, iter, inputs, pc, path >>

\* run_item_stream_event / handoff_occurred
HandoffOccurred(target) ==
    /\ pc = "stream"
    /\ consumed' = Append(consumed, HandoffEvent(target))
    /\ IF agentName = target
       THEN /\ last' = "handoff_skipped"
            /\ UNCHANGED << turnMsgs, emitted, calls, stack, agentName >>
       ELSE LET pair == createTransferEvents(agentName, target, nextUUID)
            IN  /\ turnMsgs' = turnMsgs \o pair
                /\ emitted' = emitted \o asEvents(pair)
                /\ calls' = increment(calls, agentName, target)
                /\ stack' = Append(stack, agentName)
                /\ agentName' = target
                /\ last' = "handoff"
    /\ UNCHANGED << outerVars, workflow, projectTools, toolVars, input, messages, usage, iter, inputs, pc, path >>

\* tool-result handler that pushes on the caller's array as well
ToolCallOutput_sharedArray(txt) ==
    /\ pc = "stream"
    /\ LET m == ToolMessage(txt, 101, "lookup")
       IN  /\ turnMsgs' = Append(turnMsgs, m)
           /\ messages' = Append(messages, m)
           /\ emitted' = Append(emitted, MessageEvent(m))
    /\ consumed' = Append(consumed, ToolCallOutputEvent(txt))
    /\ last' = "tool_result"
    /\ UNCHANGED << outerVars, workflow, projectTools, toolVars, input, stack, agentName, usage, calls, iter,
                    inputs, pc, path >>

\* run_item_stream_event / tool_call_output_item (completed, text output)
ToolCallOutput(txt) ==
    /\ pc = "stream"
    /\ LET m == ToolMessage(txt, 101, "lookup")
       IN  /\ turnMsgs' = Append(turnMsgs, m)
           /\ emitted' = Append(emitted, MessageEvent(m))
    /\ consumed' = Append(consumed, ToolCallOutputEvent(txt))
    /\ last' = "tool_result"
    /\ UNCHANGED << outerVars, workflow, projectTools, toolVars, input, messages, stack, agentName, usage, calls, iter,
                    inputs, pc, path >>

\* message handler whose internal hand-back emits no transfer pair
MessageOutput_noTransferPair(txts) ==
    /\ pc = "stream"
    /\ LET ms == textMessages(txts, agentName, workflow)
       IN  IF isInternal(agentName, workflow)
           THEN LET nx == getNextAgentName(stack, workflow)
                    pair == createTransferEvents(agentName, nx.name, nextUUID)
                IN  /\ turnMsgs' = turnMsgs \o ms \o pair
                    /\ emitted' = emitted \o asEvents(ms)
                    /\ calls' = increment(calls, agentName, nx.name)
                    /\ stack' = Append(nx.stack, agentName)
                    /\ agentName' = nx.name
                    /\ pc' = "top"
                    /\ last' = "internal_reentry"
           ELSE /\ turnMsgs' = turnMsgs \o ms
                /\ emitted' = emitted \o asEvents(ms)
                /\ last' = "message"
                /\ UNCHANGED << calls, stack, agentName, pc >>
    /\ consumed' = Append(consumed, MessageOutputEvent(txts, agentName'))
    /\ UNCHANGED << outerVars, workflow, projectTools, toolVars, input, messages, usage, iter, inputs, path >>

\* message handler whose internal hand-back stays in the running stream
MessageOutput_noReentry(txts) ==
    /\ pc = "stream"
    /\ LET ms == textMessages(txts, agentName, workflow)
       IN  IF isInternal(agentName, workflow)
           THEN LET nx == getNextAgentName(stack, workflow)
                    pair == createTransferEvents(agentName, nx.name, nextUUID)
                IN  /\ turnMsgs' = turnMsgs \o ms \o pair
                    /\ emitted' = emitted \o asEvents(ms) \o asEvents(pair)
                    /\ calls' = increment(calls, agentName, nx.name)
                    /\ stack' = Append(nx.stack, agentName)
                    /\ agentName' = nx.name
                    /\ pc' = "stream"
                    /\ last' = "internal_reentry"
           ELSE /\ turnMsgs' = turnMsgs \o ms
                /\ emitted' = emitted \o asEvents(ms)
                /\ last' = "message"
                /\ UNCHANGED << calls, stack, agentName, pc >>
    /\ consumed' = Append(consumed, MessageOutputEvent(txts, agentName'))
    /\ UNCHANGED << outerVars, workflow, projectTools, toolVars, input, messages, usage, iter, inputs, path >>

\* run_item_stream_event / message_output_item (completed)
MessageOutput(txts) ==
    /\ pc = "stream"
    /\ LET ms == textMessages(txts, agentName, workflow)
       IN  IF isInternal(agentName, workflow)
           THEN LET nx == getNextAgentName(stack, workflow)
                    pair == createTransferEvents(agentName, nx.name, nextUUID)
                IN  /\ turnMsgs' = turnMsgs \o ms \o pair
                    /\ emitted' = emitted \o asEvents(ms) \o asEvents(pair)
                    /\ calls' = increment(calls, agentName, nx.name)
                    /\ stack' = Append(nx.stack, agentName)
                    /\ agentName' = nx.name
                    /\ pc' = "top"
                    /\ last' = "internal_reentry"
           ELSE /\ turnMsgs' = turnMsgs \o ms
                /\ emitted' = emitted \o asEvents(ms)
                /\ last' = "message"
                /\ UNCHANGED << calls, stack, agentName, pc >>
    /\ consumed' = Append(consumed, MessageOutputEvent(txts, agentName'))
    /\ UNCHANGED << outerVars, workflow, projectTools, toolVars, input, messages, usage, iter, inputs, path >>

\* stream end that yields a usage snapshot after every provider stream
StreamEnd_usageEachStream ==
    /\ pc = "stream"
    /\ emitted' = Append(emitted, UsageEvent(usage))
    /\ pc' = IF turnComplete(turnMsgs, agentName, workflow) THEN "done" ELSE "top"
    /\ last' = "stream_end"
    /\ UNCHANGED << outerVars, workflow, projectTools, toolVars, input, messages, turnMsgs, stack, agentName, usage, calls,
                    iter, inputs, path, consumed >>

\* stream end that never recognises a completed turn
StreamEnd_neverComplete ==
    /\ pc = "stream"
    /\ pc' = "top"
    /\ last' = "stream_end"
    /\ UNCHANGED << outerVars, workflow, projectTools, toolVars, input, messages, turnMsgs, stack,
                    agentName, usage, calls, iter, inputs, emitted, path, consumed >>

\* the provider stream ends: complete the turn or loop again
StreamEnd ==
    /\ pc = "stream"
    /\ IF turnComplete(turnMsgs, agentName, workflow)
       THEN /\ emitted' = Append(emitted, UsageEvent(usage))
            /\ pc' = "done"
       ELSE /\ pc' = "top"
            /\ UNCHANGED emitted
    /\ last' = "stream_end"
    /\ UNCHANGED << outerVars, workflow, projectTools, toolVars, input, messages, turnMsgs, stack, agentName, usage, calls,
                    iter, inputs, path, consumed >>

\* a provider failure that is swallowed and followed by another run
ProviderError_retry ==
    /\ pc = "stream"
    /\ pc' = "top"
    /\ last' = "provider_error"
    /\ UNCHANGED << outerVars, workflow, projectTools, toolVars, input, messages, turnMsgs, stack,
                    agentName, usage, calls, iter, inputs, emitted, path, consumed >>

\* run() or the iteration of its event stream raises: nothing catches it
ProviderError ==
    /\ pc = "stream"
    /\ pc' = "failed"
    /\ last' = "provider_error"
    /\ UNCHANGED << outerVars, workflow, projectTools, toolVars, input, messages, turnMsgs, stack,
                    agentName, usage, calls, iter, inputs, emitted, path, consumed >>

Next ==
    \/ Start
    \/ iter < MaxIter /\ LoopTop
    \/ Len(consumed) < MaxSteps /\ \E out \in OutputChoices, u \in UsageBlocks : ResponseDone(out, u)
    \/ Len(consumed) < MaxSteps /\ \E t \in handoffs(workflow, agentName) : HandoffOccurred(t)
    \/ Len(consumed) < MaxSteps /\ ToolCallOutput("{}")
    \/ Len(consumed) < MaxSteps /\ \E txts \in TextChoices : MessageOutput(txts)
    \/ StreamEnd
    \/ ProviderError

Spec == Init /\ [][Next]_vars

\* the same orchestrator over the configuration-varying invocations
SpecConfig == InitConfig /\ [][Next]_vars

(* --------------------- the delegation-chain scenario ------------------- *)
\* S = A is user_facing and the start agent, X1 = B and X2 = C are internal;
\* the transcript holds no assistant message, so A starts with an empty stack
ChainWorkflow ==
    [startAgent |-> "A",
     agentConfig |-> PlainAgents(ChainVisibility),
     mentions |-> Mentions,
     prompts |-> <<>>,
     tools |-> <<>>,
     toolMentions |-> ToolMentionsOf("A", {})]

\* the hand-backs and the effective handoffs among the consumed events
isHandBack(e) == e.type = "message_output_item" /\ isInternal(e.agent, workflow)
isHandoff(e) == e.type = "handoff_occurred" /\ e.agent # e.target
handBacks == SelectSeq(consumed, isHandBack)
handoffsDone == SelectSeq(consumed, isHandoff)

InitChain ==
    /\ Init
    /\ workflow = ChainWorkflow
    /\ Len(ensureSystemMessage(input)) > 1
    /\ \A i \in 1..Len(input) : input[i].role # "assistant"

\* handoffs build the chain, then every agent answers an invocation with one
\* text message; a provider stream ends only under the user-facing agent
NextChain ==
    \/ Start
    \/ iter < MaxChainSteps /\ LoopTop
    \/ Len(consumed) < MaxChainSteps /\ \E out \in OutputChoices, u \in UsageBlocks : ResponseDone(out, u)
    \/ /\ Len(consumed) < MaxChainSteps
       /\ handBacks = <<>>
       /\ \E t \in handoffs(workflow, agentName) \ {agentName} : HandoffOccurred(t)
    \/ Len(consumed) < MaxChainSteps /\ MessageOutput(<< "t" >>)
    \/ ~isInternal(agentName, workflow) /\ StreamEnd

SpecChain == InitChain /\ [][NextChain]_vars

(* --------------------------- tool handlers ----------------------------- *)
\* what a helper call leaves behind: whether it threw, its value or error
\* text, the step that failed, the collaborator calls made in order, and the
\* status of the connected account it used
Outcome(threw, value, cause, steps, status) ==
    [threw |-> threw, value |-> value, cause |-> cause, steps |-> steps, status |-> status]

\* a finished execution of a tool handler
ToolRun(kind, name, returned, body, o) ==
    [kind |-> kind, tool |-> name, returned |-> returned, body |-> body,
     cause |-> o.cause, steps |-> o.steps, status |-> o.status]

\* JSON.stringify of an object with one key; the value is already JSON text
jsonObject(key, value) == "{\"" \o key \o "\":" \o value \o "}"
jsonString(text) == "\"" \o text \o "\""

invokeMockTool(fail) ==
    IF fail = "generateText"
    THEN Outcome(TRUE, "Error: model unavailable", fail, << "generateText" >>, UNDEFINED)
    ELSE Outcome(FALSE, jsonString("mocked"), "none", << "generateText" >>, UNDEFINED)

\* invokeMcpTool: connect, call, close
invokeMcpTool(fail) ==
    IF fail = "getMcpClient"
    THEN Outcome(TRUE, "Error: connect failed", fail, << "getMcpClient" >>, UNDEFINED)
    ELSE IF fail = "callTool"
    THEN Outcome(TRUE, "Error: call failed", fail, << "getMcpClient", "callTool" >>, UNDEFINED)
    ELSE Outcome(FALSE, "{\"content\":[]}", "none",
                 << "getMcpClient", "callTool", "close" >>, UNDEFINED)

\* invokeComposioTool: resolve the connected account id unless noAuth, execute
invokeComposioTool(data, proj, fail) ==
    LET account == proj.composioConnectedAccounts[data.toolkitSlug]
        lookup == IF data.noAuth THEN <<>> ELSE << "findOne" >>
    IN  IF ~data.noAuth /\ fail = "findOne"
        THEN Outcome(TRUE, "Error: database unavailable", fail, lookup, UNDEFINED)
        ELSE IF ~data.noAuth /\ ~proj.exists
        THEN Outcome(TRUE, "Error: project P not found", "project", lookup, UNDEFINED)
        ELSE IF ~data.noAuth /\ Falsy(account.id)
        THEN Outcome(TRUE, "Error: connected account id not found for project P and toolkit "
                               \o data.toolkitSlug, "account", lookup, account.status)
        ELSE IF fail = "execute"
        THEN Outcome(TRUE, "Error: execution failed", fail, Append(lookup, "execute"),
                     IF data.noAuth THEN UNDEFINED ELSE account.status)
        ELSE Outcome(FALSE, "{\"ok\":true}", "none", Append(lookup, "execute"),
                     IF data.noAuth THEN UNDEFINED ELSE account.status)

\* the ids of sourceIds that belong to an active stored data source
validSourceIds(sourceIds, stored) ==
    { d.id : d \in { x \in stored : x.active /\ \E i \in 1..Len(sourceIds) : sourceIds[i] = x.id } }

\* invokeRagTool that searches before it looks at the data sources
invokeRagTool_noEarlyReturn(sourceIds, returnType, stored, hits) ==
    IF returnType = "chunks"
    THEN Outcome(FALSE, hits, "none", << "embed", "find", "query" >>, UNDEFINED)
    ELSE Outcome(FALSE, hits, "none", << "embed", "find", "query", "docs" >>, UNDEFINED)

\* invokeRagTool: embed the query, filter the data sources, search, load docs
invokeRagTool(sourceIds, returnType, stored, hits) ==
    IF validSourceIds(sourceIds, stored) = {}
    THEN Outcome(FALSE, "[]", "none", << "embed", "find" >>, UNDEFINED)
    ELSE IF returnType = "chunks"
    THEN Outcome(FALSE, hits, "none", << "embed", "find", "query" >>, UNDEFINED)
    ELSE Outcome(FALSE, hits, "none", << "embed", "find", "query", "docs" >>, UNDEFINED)

\* what a tool handler hands to the SDK: a returned JSON text or an exception
Handed(returned, body) == [returned |-> returned, body |-> body]

\* the execute handlers of createMockTool, createMcpTool, createComposioTool
mockToolExecute(o) ==
    IF o.threw
    THEN Handed(TRUE, jsonObject("error", jsonString("Mock tool execution failed: " \o o.value)))
    ELSE Handed(TRUE, jsonObject("result", o.value))

mcpToolExecute(o) ==
    IF o.threw
    THEN Handed(TRUE, jsonObject("error", jsonString("Tool execution failed: " \o o.value)))
    ELSE Handed(TRUE, jsonObject("result", o.value))

\* a Composio handler without its try/catch
composioToolExecute_noCatch(o) ==
    IF o.threw
    THEN Handed(FALSE, o.value)
    ELSE Handed(TRUE, jsonObject("result", o.value))

composioToolExecute(o) ==
    IF o.threw
    THEN Handed(TRUE, jsonObject("error", jsonString("Tool execution failed: " \o o.value)))
    ELSE Handed(TRUE, jsonObject("result", o.value))

\* the execute handler of createRagTool has no try/catch
ragToolExecute(o) ==
    IF o.threw THEN Handed(FALSE, o.value) ELSE Handed(TRUE, jsonObject("results", o.value))

\* the SDK runs the handler of a tool bound to the active agent
MockTool(name, fail) ==
    /\ pc = "stream"
    /\ name \in agentTools(workflow, projectTools, agentName)
    /\ toolKind(toolConfig(workflow, projectTools)[name]) = "mock"
    /\ LET o == invokeMockTool(fail)
           r == mockToolExecute(o)
       IN  toolRuns' = Append(toolRuns, ToolRun("mock", name, r.returned, r.body, o))
    /\ UNCHANGED << outerVars, workflow, projectTools, project, dataSources, conns, input, messages,
                    turnMsgs, stack, agentName, usage, calls, iter, inputs, emitted, pc,
                    path, consumed, last >>

McpTool(name, fail) ==
    /\ pc = "stream"
    /\ name \in agentTools(workflow, projectTools, agentName)
    /\ toolKind(toolConfig(workflow, projectTools)[name]) = "mcp"
    /\ LET o == invokeMcpTool(fail)
           r == mcpToolExecute(o)
           opened == Cardinality({ i \in 1..Len(o.steps) : o.steps[i] = "getMcpClient" })
                     - (IF fail = "getMcpClient" THEN 1 ELSE 0)
           closed == Cardinality({ i \in 1..Len(o.steps) : o.steps[i] = "close" })
       IN  /\ toolRuns' = Append(toolRuns, ToolRun("mcp", name, r.returned, r.body, o))
           /\ conns' = conns + opened - closed
    /\ UNCHANGED << outerVars, workflow, projectTools, project, dataSources, input, messages,
                    turnMsgs, stack, agentName, usage, calls, iter, inputs, emitted, pc,
                    path, consumed, last >>

ComposioTool(name, fail) ==
    /\ pc = "stream"
    /\ name \in agentTools(workflow, projectTools, agentName)
    /\ toolKind(toolConfig(workflow, projectTools)[name]) = "composio"
    /\ LET o == invokeComposioTool(toolConfig(workflow, projectTools)[name].composioData,
                                   project, fail)
           r == composioToolExecute(o)
       IN  toolRuns' = Append(toolRuns, ToolRun("composio", name, r.returned, r.body, o))
    /\ UNCHANGED << outerVars, workflow, projectTools, project, dataSources, conns, input, messages,
                    turnMsgs, stack, agentName, usage, calls, iter, inputs, emitted, pc,
                    path, consumed, last >>

RagTool(hits) ==
    /\ pc = "stream"
    /\ RAG_TOOL \in agentTools(workflow, projectTools, agentName)
    /\ LET config == workflow.agentConfig[agentName]
           o == invokeRagTool(config.ragDataSources[1],
                              IF Falsy(config.ragReturnType) THEN "chunks"
                              ELSE config.ragReturnType,
                              dataSources, hits)
           r == ragToolExecute(o)
       IN  toolRuns' = Append(toolRuns, ToolRun("rag", RAG_TOOL, r.returned, r.body, o))
    /\ UNCHANGED << outerVars, workflow, projectTools, project, dataSources, conns, input, messages,
                    turnMsgs, stack, agentName, usage, calls, iter, inputs, emitted, pc,
                    path, consumed, last >>

\* the id the remote service gives the next connected account: the first one
\* not handed out yet
libCreateConnectedAccount ==
    IF \E k \in 1..Len(AccountIds) : remote[AccountIds[k]].state = "none"
    THEN AccountIds[CHOOSE k \in 1..Len(AccountIds) :
                        /\ remote[AccountIds[k]].state = "none"
                        /\ \A j \in 1..(k - 1) : remote[AccountIds[j]].state # "none"]
    ELSE UNDEFINED

\* createComposioManagedOauth2ConnectedAccount: on success the remote service
\* creates an account under a fresh id and the new account is stored as
\* INITIATED under the caller's toolkit slug; a failed step throws before
\* the remote account is created and before the store is written
CreateManagedOauth2ConnectedAccount(toolkitSlug, ok) ==
    /\ libCreateConnectedAccount # UNDEFINED
    /\ IF ok
       THEN /\ remote' = [remote EXCEPT ![libCreateConnectedAccount] =
                              [state |-> "live", status |-> "INITIATED",
                               toolkit |-> toolkitSlug]]
            /\ project' = IF project.exists
                          THEN [project EXCEPT !.composioConnectedAccounts[toolkitSlug] =
                                    [Account(libCreateConnectedAccount, "INITIATED") EXCEPT
                                        !.createdAt = now, !.lastUpdatedAt = now]]
                          ELSE project
       ELSE UNCHANGED << remote, project >>
    /\ UNCHANGED << response, procs, runVars >>

\* syncConnectedAccount with a switch whose default keeps the account waiting
syncStatus_defaultInitiated(remoteStatus) ==
    IF remoteStatus = "ACTIVE" THEN "ACTIVE" ELSE "INITIATED"

\* the status syncConnectedAccount stores for a remote status
syncStatus(remoteStatus) ==
    CASE remoteStatus \in {"INITIALIZING", "INITIATED"} -> "INITIATED"
      [] remoteStatus = "ACTIVE" -> "ACTIVE"
      [] OTHER -> "FAILED"

\* one call of a connected-account server action, from its first read of the
\* project on: what it was called with, the record it read, the remote
\* response it holds, where it stands and how it ended
Call(op, toolkitSlug, connectedAccountId, owner, account, at, result) ==
    [op |-> op, toolkitSlug |-> toolkitSlug, connectedAccountId |-> connectedAccountId,
     owner |-> owner, account |-> account,
     response |-> [status |-> UNDEFINED, toolkit |-> UNDEFINED], at |-> at,
     result |-> result, remoteCalls |-> 0, wrote |-> UNDEFINED]

\* syncConnectedAccount without the early return for an ACTIVE record
SyncRead_alwaysSync(toolkitSlug, connectedAccountId, owner) ==
    /\ Len(procs) < MaxCalls
    /\ LET account == project.composioConnectedAccounts[toolkitSlug]
       IN  procs' = Append(procs,
               IF ~project.exists \/ Falsy(account.id) \/ account.id # connectedAccountId
               THEN Call("sync", toolkitSlug, connectedAccountId, owner, account, "done", "threw")
               ELSE Call("sync", toolkitSlug, connectedAccountId, owner, account, "get", "pending"))
    /\ UNCHANGED << response, remote, flows, project, runVars >>

\* syncConnectedAccount up to its first remote call: the stored record of the
\* caller's toolkit slug must carry the caller's id, or the call throws; an
\* ACTIVE record is returned as it is
SyncRead(toolkitSlug, connectedAccountId, owner) ==
    /\ Len(procs) < MaxCalls
    /\ LET account == project.composioConnectedAccounts[toolkitSlug]
       IN  procs' = Append(procs,
               IF ~project.exists \/ Falsy(account.id) \/ account.id # connectedAccountId
               THEN Call("sync", toolkitSlug, connectedAccountId, owner, account, "done", "threw")
               ELSE IF account.status = "ACTIVE"
               THEN Call("sync", toolkitSlug, connectedAccountId, owner, account, "done", "returned")
               ELSE Call("sync", toolkitSlug, connectedAccountId, owner, account, "get", "pending"))
    /\ UNCHANGED << response, remote, flows, project, runVars >>

\* libGetConnectedAccount: the remote account as it is now; an account the
\* remote service no longer has makes the call throw
SyncGet(i) ==
    /\ procs[i].op = "sync" /\ procs[i].at = "get"
    /\ LET r == remote[procs[i].connectedAccountId]
       IN  procs' = [procs EXCEPT ![i] =
               IF r.state = "live"
               THEN [@ EXCEPT !.response = [status |-> r.status, toolkit |-> r.toolkit],
                              !.remoteCalls = @ + 1, !.at = "write"]
               ELSE [@ EXCEPT !.remoteCalls = @ + 1, !.at = "done", !.result = "threw"]]
    /\ UNCHANGED << response, remote, flows, project, runVars >>

\* the rest of syncConnectedAccount: the record read at the start, with the
\* mapped status and a new lastUpdatedAt, is set under the toolkit slug of
\* the remote response
SyncWrite(i) ==
    /\ procs[i].op = "sync" /\ procs[i].at = "write"
    /\ LET key == procs[i].response.toolkit
           account == [procs[i].account EXCEPT !.status = syncStatus(procs[i].response.status),
                                               !.lastUpdatedAt = now]
       IN  /\ project' = IF project.exists
                          THEN [project EXCEPT !.composioConnectedAccounts[key] = account]
                          ELSE project
           /\ procs' = [procs EXCEPT ![i] = [@ EXCEPT !.account = account, !.wrote = key,
                                                      !.response = [status |-> UNDEFINED, toolkit |-> UNDEFINED],
                                                      !.at = "done", !.result = "returned"]]
    /\ UNCHANGED << response, remote, flows, runVars >>

\* deleteConnectedAccount testing only that some record is stored
DeleteRead_anyId(toolkitSlug, connectedAccountId) ==
    /\ Len(procs) < MaxCalls
    /\ LET account == project.composioConnectedAccounts[toolkitSlug]
       IN  procs' = Append(procs,
               IF ~project.exists \/ Falsy(account.id)
               THEN Call("delete", toolkitSlug, connectedAccountId, 0, account, "done", "threw")
               ELSE Call("delete", toolkitSlug, connectedAccountId, 0, account, "remote", "pending"))
    /\ UNCHANGED << response, remote, flows, project, runVars >>

\* deleteConnectedAccount up to its first remote call: the same ownership
\* test as in syncConnectedAccount
DeleteRead(toolkitSlug, connectedAccountId) ==
    /\ Len(procs) < MaxCalls
    /\ LET account == project.composioConnectedAccounts[toolkitSlug]
       IN  procs' = Append(procs,
               IF ~project.exists \/ Falsy(account.id) \/ account.id # connectedAccountId
               THEN Call("delete", toolkitSlug, connectedAccountId, 0, account, "done", "threw")
               ELSE Call("delete", toolkitSlug, connectedAccountId, 0, account, "remote", "pending"))
    /\ UNCHANGED << response, remote, flows, project, runVars >>

\* libDeleteConnectedAccount, then the auth config is looked up; the managed
\* auth config is kept. An account the remote service no longer has makes
\* the call throw
DeleteRemote(i) ==
    /\ procs[i].op = "delete" /\ procs[i].at = "remote"
    /\ IF remote[procs[i].connectedAccountId].state = "live"
       THEN /\ remote' = [remote EXCEPT ![procs[i].connectedAccountId] =
                               [state |-> "deleted", status |-> UNDEFINED,
                                toolkit |-> UNDEFINED]]
            /\ procs' = [procs EXCEPT ![i] = [@ EXCEPT !.remoteCalls = @ + 2, !.at = "unset"]]
       ELSE /\ procs' = [procs EXCEPT ![i] = [@ EXCEPT !.remoteCalls = @ + 1, !.at = "done",
                                                      !.result = "threw"]]
            /\ UNCHANGED remote
    /\ UNCHANGED << response, flows, project, runVars >>

\* the rest of deleteConnectedAccount: the record of the caller's toolkit
\* slug is unset and true is returned
DeleteUnset(i) ==
    /\ procs[i].op = "delete" /\ procs[i].at = "unset"
    /\ project' = IF project.exists
                  THEN [project EXCEPT !.composioConnectedAccounts[procs[i].toolkitSlug] =
                            NoAccount]
                  ELSE project
    /\ procs' = [procs EXCEPT ![i] = [@ EXCEPT !.wrote = procs[i].toolkitSlug,
                                               !.at = "done", !.result = "returned"]]
    /\ UNCHANGED << response, remote, flows, runVars >>

\* the remote service moves an account to another status (the user finishes or
\* abandons the OAuth dialogue, a token expires); only the accounts that a
\* stored record or a call in flight refers to are followed
RemoteStatusChange(id, status) ==
    /\ remote[id].state = "live"
    /\ \/ \E t \in Toolkits : project.composioConnectedAccounts[t].id = id
       \/ \E i \in 1..Len(procs) : procs[i].at # "done" /\ procs[i].connectedAccountId = id
    /\ remote[id].status # status
    /\ remote' = [remote EXCEPT ![id].status = status]
    /\ UNCHANGED << response, procs, flows, project, runVars >>

\* what the stores can hold when an invocation starts
ProjectChoices ==
    { NoProject, Project(NoAccounts),
      Project([NoAccounts EXCEPT !["gmail"] = Account("ca_1", "ACTIVE")]),
      Project([NoAccounts EXCEPT !["gmail"] = Account("ca_1", "FAILED")]) }
DataSourceChoices ==
    { {}, { [id |-> "ds1", active |-> FALSE] }, { [id |-> "ds1", active |-> TRUE] },
      { [id |-> "ds1", active |-> FALSE], [id |-> "ds3", active |-> TRUE] },
      { [id |-> "ds1", active |-> FALSE], [id |-> "ds2", active |-> TRUE] } }
ToolFailures == {"none", "generateText", "getMcpClient", "callTool", "findOne", "execute"}
Hits == { "[]", "[{\"docId\":\"d1\",\"sourceId\":\"ds2\",\"content\":\"text\"}]" }

\* one invocation of the all-tools workflow: the tools run during the
\* provider stream of the start agent
InitTools ==
    /\ workflow = ToolWorkflow(AllToolsSetup, <<>>)
    /\ projectTools = AllToolsSetup.projectTools
    /\ project \in ProjectChoices
    /\ dataSources \in DataSourceChoices
    /\ conns = 0
    /\ toolRuns = <<>>
    /\ input = << UserMessage("Hi") >>
    /\ InitLocals

NextTools ==
    \/ Start
    \/ iter = 0 /\ LoopTop
    \/ Len(toolRuns) < MaxToolRuns
         /\ \E n \in workflow.toolMentions["A"], fail \in ToolFailures : MockTool(n, fail)
    \/ Len(toolRuns) < MaxToolRuns
         /\ \E n \in workflow.toolMentions["A"], fail \in ToolFailures : McpTool(n, fail)
    \/ Len(toolRuns) < MaxToolRuns
         /\ \E n \in workflow.toolMentions["A"], fail \in ToolFailures : ComposioTool(n, fail)
    \/ Len(toolRuns) < MaxToolRuns /\ \E hits \in Hits : RagTool(hits)
    \/ \E ok \in BOOLEAN : CreateManagedOauth2ConnectedAccount("gmail", ok) /\ UNCHANGED flows

SpecTools == InitTools /\ [][NextTools]_vars

(* ------------------------- derived observations ------------------------ *)
\* the messages appended to the running transcript during this invocation
appended == SubSeq(turnMsgs, Len(messages) + 1, Len(turnMsgs))

\* the message events yielded so far, as messages
RECURSIVE messagesOf(_)
messagesOf(evs) ==
    IF evs = <<>> THEN <<>>
    ELSE IF Last(evs).kind = "message" THEN Append(messagesOf(Front(evs)), Last(evs).msg)
    ELSE messagesOf(Front(evs))

usageEventCount(evs) == Cardinality({ i \in 1..Len(evs) : evs[i].kind = "usage" })

isTransferCall(m) ==
    m.role = "assistant" /\ m.content = NULL /\ Len(m.toolCalls) = 1
    /\ m.toolCalls[1].name = TRANSFER_TOOL

\* component-wise sum of the usage blocks of the completed responses consumed
RECURSIVE usageSum(_)
usageSum(evs) ==
    IF evs = <<>> THEN NoTokens
    ELSE LET r == usageSum(Front(evs))
             e == Last(evs)
         IN  IF e.type = "response_done"
             THEN [total |-> r.total + e.usage.totalTokens,
                   prompt |-> r.prompt + e.usage.inputTokens,
                   completion |-> r.completion + e.usage.outputTokens]
             ELSE r

\* the first greeting-type prompt of a workflow, 0 when there is none
firstGreeting(prompts) ==
    LET G == { i \in 1..Len(prompts) : prompts[i].type = "greeting" }
    IN  IF G = {} THEN 0 ELSE CHOOSE i \in G : \A j \in G : i <= j

(* ------------------------------ claims --------------------------------- *)
\* C1: on the loop path the turn is complete only when the last transcript
\* message is a non-null-content assistant message authored by the active
\* agent and that agent is user_facing; never while the active agent is
\* internal, nor on a tool message or a null-content tool-call message.
C1_TurnCompletesOnlyOnUserFacingText ==
    (pc = "done" /\ path = "loop") =>
        /\ Len(turnMsgs) > 0
        /\ turnMsgs[Len(turnMsgs)].role = "assistant"
        /\ turnMsgs[Len(turnMsgs)].role # "tool"
        /\ turnMsgs[Len(turnMsgs)].content # NULL
        /\ turnMsgs[Len(turnMsgs)].toolCalls = <<>>
        /\ turnMsgs[Len(turnMsgs)].agentName = agentName
        /\ agentName \in DOMAIN workflow.agentConfig
        /\ workflow.agentConfig[agentName].outputVisibility = "user_facing"
        /\ workflow.agentConfig[agentName].outputVisibility # "internal"
        /\ emitted[Len(emitted)].kind = "usage"

\* a turn completed on a message produced in this invocation, after tool traffic
C1_Witness ==
    /\ pc = "done" /\ path = "loop" /\ last = "stream_end"
    /\ Len(appended) >= 2
    /\ appended[Len(appended) - 1].role = "tool"

\* C2: when an internal agent Y that received control by a handoff speaks,
\* the next active agent is the top of the call stack (the start agent when
\* the stack is empty), whatever Y's own hand-off list is.
C2_HandBackPopsCallStack ==
    [][ (pc = "stream" /\ last' = "internal_reentry" /\ consumed' # consumed) =>
            /\ agentName' = IF stack = <<>> THEN workflow.startAgent ELSE stack[Len(stack)]
            /\ pc' = "top" ]_vars

\* internal X handed off to internal Y, Y spoke, and X (not among Y's
\* hand-offs) is active again
C2_Witness ==
    /\ last = "internal_reentry"
    /\ Len(consumed) >= 2
    /\ LET h == consumed[Len(consumed) - 1]
           m == consumed[Len(consumed)]
       IN  /\ h.type = "handoff_occurred"
           /\ h.agent # h.target
           /\ isInternal(h.agent, workflow)
           /\ isInternal(h.target, workflow)
           /\ m.type = "message_output_item"
           /\ m.agent = h.target
           /\ agentName = h.agent
           /\ agentName \notin handoffs(workflow, h.target)

\* C3: in a chain S -> X1 -> ... -> Xn built by handoffs, where every
\* internal agent then answers with one text message, the i-th hand-back goes
\* to the source of the i-th last handoff (Xn-1, ..., X1, S in that order) and
\* no later hand-back re-enters an agent that has already handed back.
C3_ChainUnwinds ==
    /\ \A i \in 1..Len(handBacks) :
          /\ i <= Len(handoffsDone)
          /\ handBacks[i].next = handoffsDone[Len(handoffsDone) - i + 1].agent
    /\ \A i, j \in 1..Len(handBacks) : i < j => handBacks[j].next # handBacks[i].agent

\* C4: a handoff event whose target is the active agent appends nothing,
\* emits nothing, counts nothing, pushes nothing and keeps the active agent.
C4_SelfHandoffIgnored ==
    [][ ( /\ pc = "stream"
          /\ Len(consumed') = Len(consumed) + 1
          /\ consumed'[Len(consumed')].type = "handoff_occurred"
          /\ consumed'[Len(consumed')].target = agentName )
        => /\ turnMsgs' = turnMsgs
           /\ emitted' = emitted
           /\ calls' = calls
           /\ stack' = stack
           /\ agentName' = agentName ]_vars

\* a handoff to the active agent itself has just been consumed
C4_Witness ==
    /\ last = "handoff_skipped"
    /\ consumed[Len(consumed)].type = "handoff_occurred"
    /\ consumed[Len(consumed)].target = agentName
    /\ consumed[Len(consumed)].agent = agentName

\* C5: a terminated invocation (greeting or loop exit) has emitted exactly
\* one usage snapshot and it is the last event; a running invocation none.
C5_ExactlyOneFinalUsageEvent ==
    /\ pc = "done" =>
          /\ usageEventCount(emitted) = 1
          /\ emitted[Len(emitted)].kind = "usage"
          /\ \A i \in 1..(Len(emitted) - 1) : emitted[i].kind = "message"
    /\ pc # "done" => usageEventCount(emitted) = 0

\* a loop exit after several provider streams and several message events
C5_Witness ==
    /\ pc = "done" /\ path = "loop" /\ iter >= 2
    /\ Len(emitted) >= 3

\* C6: on the loop path the message events emitted so far are exactly the
\* messages appended to the running transcript so far, in the same order.
C6_EmittedEqualsAppended ==
    path = "loop" =>
        /\ Len(messagesOf(emitted)) = Len(turnMsgs) - Len(messages)
        /\ \A i \in 1..Len(messagesOf(emitted)) :
              messagesOf(emitted)[i] = turnMsgs[Len(messages) + i]
        /\ SubSeq(turnMsgs, 1, Len(messages)) = messages

\* a transfer pair and a text message were appended and emitted
C6_Witness ==
    /\ path = "loop" /\ pc = "done"
    /\ Len(appended) >= 3
    /\ \E i \in 1..(Len(appended) - 1) :
          isTransferCall(appended[i]) /\ appended[i + 1].role = "tool"

\* C7: the usage totals never decrease, always equal the component-wise sum
\* of the usage blocks of the completed responses consumed (each counted
\* once), and the final usage event carries that sum.
C7_UsageIsSumOfResponses ==
    /\ [](usage = usageSum(consumed))
    /\ []((pc = "done" /\ path = "loop") =>
            emitted[Len(emitted)].tokens = usageSum(consumed))
    /\ [][ /\ usage'.total >= usage.total
           /\ usage'.prompt >= usage.prompt
           /\ usage'.completion >= usage.completion ]_vars

\* a completed turn that consumed a response carrying several function calls
C7_Witness ==
    /\ pc = "done" /\ path = "loop"
    /\ \E i \in 1..Len(consumed) :
          consumed[i].type = "response_done" /\ Len(consumed[i].output) >= 2
    /\ emitted[Len(emitted)].tokens.total > 0

\* C8: a transcript that is a single system message yields exactly the
\* greeting (first greeting prompt, the default when there is none or it is
\* blank) by the start agent with external visibility, then a zero usage
\* snapshot, and the invocation is over.
C8_GreetingTurn ==
    (pc # "start" /\ Len(input) = 1 /\ input[1].role = "system") =>
        LET g == firstGreeting(workflow.prompts)
            text == IF g = 0 \/ workflow.prompts[g].prompt = ""
                    THEN "How can I help you today?"
                    ELSE workflow.prompts[g].prompt
        IN  /\ pc = "done"
            /\ Len(emitted) = 2
            /\ emitted[1].kind = "message"
            /\ emitted[1].msg.role = "assistant"
            /\ emitted[1].msg.content = text
            /\ emitted[1].msg.agentName = workflow.startAgent
            /\ emitted[1].msg.responseType = "external"
            /\ emitted[1].msg.toolCalls = <<>>
            /\ emitted[2].kind = "usage"
            /\ emitted[2].tokens = [total |-> 0, prompt |-> 0, completion |-> 0]
            /\ ~ENABLED Next

\* the greeting shortcut ran with a configured greeting prompt
C8_Witness ==
    /\ path = "greeting" /\ pc = "done"
    /\ workflow.prompts # <<>>
    /\ emitted[1].msg.content = "Welcome!"

\* C9: ensureSystemMessage prepends one default system message to a
\* transcript that starts otherwise and keeps the original messages in
\* order; it gives a blank leading system message the default content,
\* leaves a non-blank one alone, and is idempotent.
C9_EnsureSystemMessage ==
    (pc # "start" /\ Len(input) > 0) =>
        /\ messages[1].role = "system"
        /\ input[1].role # "system" =>
              /\ Len(messages) = Len(input) + 1
              /\ messages[1].content = "You are a helpful assistant."
              /\ \A i \in 1..Len(input) : messages[i + 1] = input[i]
        /\ input[1].role = "system" =>
              /\ Len(messages) = Len(input)
              /\ \A i \in 2..Len(input) : messages[i] = input[i]
              /\ messages[1].content =
                    IF input[1].content = "" THEN "You are a helpful assistant."
                    ELSE input[1].content
        /\ ensureSystemMessage(messages) = messages

\* a two-message transcript without a leading system message was repaired
C9_Witness ==
    /\ pc # "start"
    /\ Len(input) = 2 /\ input[1].role # "system"
    /\ Len(messages) = 3

\* the scenario of C10: under internal A, one provider stream carries a
\* handoff to user_facing B and then a text message, and nothing else
handoffThenMessage ==
    /\ path = "loop"
    /\ Len(consumed) = 2
    /\ consumed[1].type = "handoff_occurred"
    /\ consumed[1].agent # consumed[1].target
    /\ isInternal(consumed[1].agent, workflow)
    /\ workflow.agentConfig[consumed[1].target].outputVisibility = "user_facing"
    /\ consumed[2].type = "message_output_item"
    /\ consumed[2].iter = consumed[1].iter

\* C10: in that scenario the appended messages are the transfer pair A->B
\* (call authored by A, then its result) followed by the text tagged B and
\* external; the turn completes when that stream ends, and a stream that
\* ends right after the handoff does not complete it.
C10_HandoffThenMessageScenario ==
    /\ handoffThenMessage =>
          LET A == consumed[1].agent
              B == consumed[1].target
              n == Len(consumed[2].texts)
          IN  /\ Len(appended) = 2 + n
              /\ appended[1].role = "assistant"
              /\ appended[1].content = NULL
              /\ appended[1].agentName = A
              /\ Len(appended[1].toolCalls) = 1
              /\ appended[1].toolCalls[1].name = "transfer_to_agent"
              /\ appended[1].toolCalls[1].arguments = transferPayload(B)
              /\ appended[2].role = "tool"
              /\ appended[2].toolName = "transfer_to_agent"
              /\ appended[2].toolCallId = appended[1].toolCalls[1].id
              /\ appended[2].content = transferPayload(B)
              /\ \A i \in 1..n :
                    /\ appended[2 + i].role = "assistant"
                    /\ appended[2 + i].content = consumed[2].texts[i]
                    /\ appended[2 + i].agentName = B
                    /\ appended[2 + i].responseType = "external"
              /\ pc # "done" => last \in {"message", "provider_error"}
              /\ last = "stream_end" => pc = "done"
    /\ ( /\ path = "loop" /\ Len(consumed) = 1
         /\ consumed[1].type = "handoff_occurred"
         /\ consumed[1].agent # consumed[1].target
         /\ isInternal(consumed[1].agent, workflow) )
       => pc # "done"

\* the scenario ran to the end of its stream and the turn is complete
C10_Witness ==
    /\ handoffThenMessage
    /\ last = "stream_end" /\ pc = "done"
    /\ iter = 1

(* ------------------------ claims C11 to C20 ---------------------------- *)
\* a single user_facing start agent without tools, transcript [system, user],
\* and a first provider stream of one completed response and one text message
singleAgentOneMessage ==
    /\ DOMAIN workflow.agentConfig = {workflow.startAgent}
    /\ workflow.agentConfig[workflow.startAgent].outputVisibility = "user_facing"
    /\ workflow.tools = <<>> /\ projectTools = <<>>
    /\ Len(input) = 2
    /\ input[1].role = "system" /\ input[2].role = "user"
    /\ Len(consumed) = 2
    /\ consumed[1].type = "response_done" /\ consumed[1].output = <<>>
    /\ consumed[2].type = "message_output_item" /\ Len(consumed[2].texts) = 1
    /\ consumed[1].iter = 1 /\ consumed[2].iter = 1

\* C11: in that scenario the loop body runs once, exactly one external
\* assistant message is emitted, the turn completes when the stream ends,
\* the final usage event follows the message and nothing runs afterwards.
C11_SingleAgentScenarioTerminates ==
    singleAgentOneMessage =>
        /\ iter = 1
        /\ pc \in {"stream", "done", "failed"}
        /\ messagesOf(emitted) =
              << AssistantMessage(consumed[2].texts[1], workflow.startAgent, "external") >>
        /\ last = "stream_end" =>
              /\ pc = "done"
              /\ emitted = << MessageEvent(AssistantMessage(consumed[2].texts[1],
                                                            workflow.startAgent, "external")),
                              UsageEvent(usageSum(consumed)) >>
              /\ ~ENABLED Next
        /\ pc = "done" <=> last = "stream_end"

\* the scenario ran to the end of its only provider stream
C11_Witness ==
    /\ singleAgentOneMessage
    /\ last = "stream_end" /\ pc = "done"
    /\ usageEventCount(emitted) = 1

\* the merged tool configuration holds a tool that createTools builds as a
\* Composio tool and that has no composioData
missingAuthMetadata ==
    \E n \in DOMAIN toolConfig(workflow, projectTools) :
        /\ toolKind(toolConfig(workflow, projectTools)[n]) = "composio"
        /\ ~toolConfig(workflow, projectTools)[n].composioData.present

\* C13: a non-greeting invocation whose merged tool configuration holds a
\* Composio tool without composioData has failed before the loop: no loop
\* iteration, no provider input, no event, nothing left to run; whether an
\* agent mentions the tool makes no difference.
C13_MissingAuthMetadataFailsBeforeLoop ==
    (pc # "start" /\ path # "greeting" /\ missingAuthMetadata) =>
        /\ pc = "failed"
        /\ path = "build"
        /\ iter = 0
        /\ inputs = <<>>
        /\ consumed = <<>>
        /\ emitted = <<>>
        /\ ~ENABLED Next

\* the invocation failed on a project tool that replaced a complete workflow
\* tool of the same name and that no agent mentions
C13_Witness ==
    /\ pc = "failed" /\ last = "start"
    /\ missingAuthMetadata
    /\ workflow.tools # <<>>
    /\ workflow.tools[1].composioData.present
    /\ \A a \in DOMAIN workflow.agentConfig : workflow.toolMentions[a] = {}

\* an agent with RAG settings whose data-source list is empty or absent
ragWithoutSources(config) ==
    /\ config.ragDataSources # Absent \/ config.ragReturnType # UNDEFINED
    /\ optLength(config.ragDataSources) = 0

C15_UnknownAgentFailsAtLoopTop ==
    /\ (last = "top" /\ agentName \notin agents(workflow)) =>
          /\ pc = "failed"
          /\ iter >= 1
          /\ consumed = <<>> => inputs = <<>>
          /\ \A i \in 1..Len(consumed) : consumed[i].iter < iter
          /\ usageEventCount(emitted) = 0
          /\ ~ENABLED Next
    /\ (last = "top" /\ agentName \in agents(workflow)) => pc = "stream"
    /\ pc = "stream" => agentName \in agents(workflow)
    /\ (pc = "failed" /\ path = "loop" /\ last # "provider_error") =>
          (last = "top" /\ agentName \notin agents(workflow))

\* an internal agent handed back to a name that is not in the graph
C15_Witness ==
    /\ pc = "failed" /\ last = "top"
    /\ agentName \notin agents(workflow)
    /\ handBacks # <<>>
    /\ consumed[Len(consumed)].next = agentName

\* C16: an invocation that aborted with a configuration error (missing
\* composioData, unknown active agent) has emitted no event.
C16_NoEventBeforeConfigurationError ==
    (pc = "failed" /\ last \in {"start", "top"}) => emitted = <<>>

\* C16 as the code has it: nothing was emitted when the error is raised
\* before the first provider run (missing composioData, unknown first active
\* agent); an unknown agent met in a later iteration was reached by an
\* internal hand-back, whose text messages and transfer pair were emitted
\* before the error.
C16_NoEventBeforeFirstRunOnly ==
    /\ (pc = "failed" /\ last = "start") => emitted = <<>>
    /\ (pc = "failed" /\ last = "top" /\ iter = 1) => emitted = <<>>
    /\ (pc = "failed" /\ last = "top" /\ iter > 1) =>
          /\ consumed # <<>>
          /\ isHandBack(consumed[Len(consumed)])
          /\ Len(emitted) >= 3
          /\ isTransferCall(emitted[Len(emitted) - 1].msg)
          /\ emitted[Len(emitted)].msg.role = "tool"
          /\ emitted[Len(emitted)].msg.content = transferPayload(agentName)
          /\ emitted[Len(emitted) - 2].msg.responseType = "internal"

\* the second iteration failed on an unknown name after events were emitted
C16_Witness ==
    /\ pc = "failed" /\ last = "top" /\ iter = 2
    /\ agentName \notin agents(workflow)
    /\ Len(messagesOf(emitted)) >= 3

\* C17: a provider error ends the invocation where it is raised: the step
\* appends and emits nothing, and afterwards nothing runs (no retry, no
\* further iteration) and no usage event exists.
C17_ProviderErrorPropagates ==
    /\ [][ last' = "provider_error" =>
              /\ pc = "stream" /\ pc' = "failed"
              /\ turnMsgs' = turnMsgs
              /\ emitted' = emitted
              /\ iter' = iter ]_vars
    /\ [](last = "provider_error" =>
              /\ pc = "failed"
              /\ usageEventCount(emitted) = 0
              /\ ~ENABLED Next)

\* the provider failed in the middle of the second stream of an invocation
C17_Witness ==
    /\ last = "provider_error" /\ pc = "failed"
    /\ iter = 2
    /\ consumed # <<>>
    /\ consumed[Len(consumed)].iter = 2
    /\ emitted # <<>>

\* the finished tool runs of one kind, and whether a run made a collaborator call
runsOf(kinds) == { i \in 1..Len(toolRuns) : toolRuns[i].kind \in kinds }
made(run, step) == \E k \in 1..Len(run.steps) : run.steps[k] = step

\* C12: every finished execution of a mock, MCP or Composio handler returned
\* a JSON text and raised nothing: {"error": <message>} carrying the failure
\* when a step of the underlying call failed (a failed or empty project or
\* connected-account lookup included), {"result": ...} otherwise; the
\* invocation is still consuming its provider stream.
C12_ToolFailuresAreReturned ==
    \A i \in runsOf({"mock", "mcp", "composio"}) :
        /\ toolRuns[i].returned
        /\ toolRuns[i].cause # "none" => StartsWith(toolRuns[i].body, "{\"error\":\"")
        /\ toolRuns[i].cause = "none" => StartsWith(toolRuns[i].body, "{\"result\":")
        /\ pc = "stream"

\* a Composio call failed on the connected-account lookup, an MCP call failed
\* while connected, and both handlers returned
C12_Witness ==
    /\ pc = "stream"
    /\ \E i, j \in 1..Len(toolRuns) :
          /\ toolRuns[i].kind = "composio" /\ toolRuns[i].cause = "account"
          /\ toolRuns[i].returned
          /\ toolRuns[j].kind = "mcp" /\ toolRuns[j].cause = "callTool"
          /\ toolRuns[j].returned

C19_McpConnectionClosed ==
    /\ conns = 0
    /\ \A i \in runsOf({"mcp"}) :
          made(toolRuns[i], "callTool") => made(toolRuns[i], "close")

\* C20: a Composio tool that is not noAuth runs the remote tool only with an
\* ACTIVE stored account; without a record, or with an INITIATED or FAILED
\* one, the handler returns an error and no remote execution is made; a
\* noAuth tool runs without any account lookup.
C20_ComposioNeedsActiveAccount ==
    \A i \in runsOf({"composio"}) :
        LET data == toolConfig(workflow, projectTools)[toolRuns[i].tool].composioData
        IN  IF data.noAuth
            THEN ~made(toolRuns[i], "findOne")
            ELSE /\ made(toolRuns[i], "execute") => toolRuns[i].status = "ACTIVE"
                 /\ toolRuns[i].status # "ACTIVE" =>
                       /\ StartsWith(toolRuns[i].body, "{\"error\":\"")
                       /\ ~made(toolRuns[i], "execute")

\* the step consumed one more provider event
consumes == Len(consumed') = Len(consumed) + 1

\* C21: a handoff event from the active agent A to a different target T
\* appends and emits, consecutively, exactly two messages: a null-content
\* assistant message authored by A with the single tool call
\* transfer_to_agent naming T, then the tool message with the same call id
\* naming T; it adds one to the counter entry A:T and to no other, pushes A
\* on the call stack, makes T the active agent and stays in the same
\* provider stream (no new invocation, no new provider input); every
\* assistant message a later event of that stream appends is attributed to
\* the then active agent T.
C21_HandoffToOtherAgent ==
    [][ /\ ( /\ consumes
             /\ Last(consumed').type = "handoff_occurred"
             /\ Last(consumed').target # agentName )
          => LET T == Last(consumed').target
                 n == Len(turnMsgs)
                 m1 == turnMsgs'[n + 1]
                 m2 == turnMsgs'[n + 2]
             IN  /\ Len(turnMsgs') = n + 2
                 /\ SubSeq(turnMsgs', 1, n) = turnMsgs
                 /\ m1.role = "assistant" /\ m1.content = NULL
                 /\ m1.agentName = agentName
                 /\ Len(m1.toolCalls) = 1
                 /\ m1.toolCalls[1].name = "transfer_to_agent"
                 /\ m1.toolCalls[1].arguments = "{\"assistant\":\"" \o T \o "\"}"
                 /\ m2.role = "tool"
                 /\ m2.toolCallId = m1.toolCalls[1].id
                 /\ m2.toolName = "transfer_to_agent"
                 /\ m2.content = "{\"assistant\":\"" \o T \o "\"}"
                 /\ emitted' = emitted \o << MessageEvent(m1), MessageEvent(m2) >>
                 /\ calls' = [calls EXCEPT ![agentName \o ":" \o T] = @ + 1]
                 /\ stack' = Append(stack, agentName)
                 /\ agentName' = T
                 /\ pc = "stream" /\ pc' = "stream"
                 /\ iter' = iter /\ inputs' = inputs
        /\ ( /\ consumes
             /\ last = "handoff" )
          => /\ agentName = Last(consumed).target
             /\ iter' = iter
             /\ \A i \in (Len(turnMsgs) + 1)..Len(turnMsgs') :
                    turnMsgs'[i].role = "assistant"
                        => turnMsgs'[i].agentName = Last(consumed).target
      ]_vars

\* a handoff from A to B was followed, in the same stream, by a text message
\* that is attributed to B
C21_Witness ==
    /\ Len(consumed) = 2
    /\ consumed[1].type = "handoff_occurred" /\ consumed[1].agent = "A"
    /\ consumed[1].target = "B"
    /\ consumed[2].type = "message_output_item" /\ consumed[2].iter = consumed[1].iter
    /\ Len(consumed[2].texts) > 0
    /\ stack = << "A" >> /\ calls["A:B"] = 1
    /\ \E i \in 1..Len(turnMsgs) :
          turnMsgs[i].role = "assistant" /\ turnMsgs[i].agentName = "B"
          /\ turnMsgs[i].content # NULL /\ i > Len(messages) + 2

\* C22: when a completed message-output event arrives while the active agent
\* C is internal, its text segments are appended and emitted as 'internal'
\* assistant messages authored by C; the next agent N is the popped stack
\* top, or the start agent when the stack is empty; the transfer pair C->N
\* is appended and emitted after the texts, the counter entry C:N grows by
\* one, C is pushed on the stack and N becomes the active agent. No later
\* event of that stream is processed: the next step is the start of a fresh
\* provider invocation for N, taken without the turn-completion check (no
\* usage event, no completion in between).
C22_InternalReentry ==
    /\ [][ /\ ( /\ consumes
                /\ Last(consumed').type = "message_output_item"
                /\ agentName \in DOMAIN workflow.agentConfig
                /\ workflow.agentConfig[agentName].outputVisibility = "internal" )
             => LET C == agentName
                    N == IF stack = <<>> THEN workflow.startAgent ELSE stack[Len(stack)]
                    rest == IF stack = <<>> THEN <<>> ELSE SubSeq(stack, 1, Len(stack) - 1)
                    txts == Last(consumed').texts
                    n == Len(turnMsgs)
                    k == Len(txts)
                    m1 == turnMsgs'[n + k + 1]
                    m2 == turnMsgs'[n + k + 2]
                IN  /\ Len(turnMsgs') = n + k + 2
                    /\ SubSeq(turnMsgs', 1, n) = turnMsgs
                    /\ \A i \in 1..k :
                          turnMsgs'[n + i] = AssistantMessage(txts[i], C, "internal")
                    /\ isTransferCall(m1) /\ m1.agentName = C
                    /\ m1.toolCalls[1].arguments = "{\"assistant\":\"" \o N \o "\"}"
                    /\ m2.role = "tool" /\ m2.toolCallId = m1.toolCalls[1].id
                    /\ m2.content = "{\"assistant\":\"" \o N \o "\"}"
                    /\ emitted' = emitted \o
                          [i \in 1..(k + 2) |-> MessageEvent(turnMsgs'[n + i])]
                    /\ calls' = [calls EXCEPT ![C \o ":" \o N] = @ + 1]
                    /\ stack' = Append(rest, C)
                    /\ agentName' = N
                    /\ pc' = "top"
                    /\ last' = "internal_reentry"
           /\ last = "internal_reentry"
             => /\ pc = "top"
                /\ iter' = iter + 1
                /\ agentName' = agentName
                /\ agentName \in DOMAIN workflow.agentConfig
                     => pc' = "stream" /\ inputs' = convertMsgsInput(turnMsgs)
                /\ UNCHANGED << turnMsgs, emitted, consumed, stack, calls >>
         ]_vars
    /\ [](\A i, j \in 1..Len(consumed) :
             ( /\ i < j
               /\ consumed[i].type = "message_output_item"
               /\ isInternal(consumed[i].agent, workflow) )
             => consumed[j].iter > consumed[i].iter)

\* internal agent B, reached through the transcript, answered; the hand-back
\* went to the start agent A, whose fresh invocation has begun
C22_Witness ==
    /\ Len(consumed) >= 1
    /\ consumed[1].type = "message_output_item"
    /\ consumed[1].agent = "B" /\ isInternal("B", workflow)
    /\ consumed[1].next = "A"
    /\ agentName = "A" /\ stack = << "B" >>
    /\ calls["B:A"] = 1
    /\ pc = "stream" /\ iter = 2 /\ last = "top"

C24_ReinvocationSeesToolResult ==
    [][ ( /\ pc = "top" /\ last = "stream_end"
          /\ Len(turnMsgs) > Len(messages)
          /\ turnMsgs[Len(turnMsgs)].role = "tool"
          /\ turnMsgs[Len(turnMsgs)].toolName # "transfer_to_agent"
          /\ pc' = "stream" )
        => /\ agentName' = agentName
           /\ iter' = iter + 1
           /\ inputs' # inputs
           /\ Len(inputs') > Len(inputs)
      ]_vars

\* C25: a completed-response event yields, for every function call of its
\* output whose name does not begin with 'transfer_to', exactly one
\* null-content assistant message that carries exactly that one tool call
\* (same call id, name and arguments) and is authored by the active agent;
\* these messages are appended and emitted in output order, and a function
\* call whose name begins with the prefix, like an output item that is no
\* function call, yields no message.
C25_ToolCallMessages ==
    [][ ( /\ consumes
          /\ Last(consumed').type = "response_done" )
        => LET recorded(o) == /\ o.type = "function_call"
                              /\ ~StartsWith(o.name, "transfer_to")
               kept == SelectSeq(Last(consumed').output, recorded)
               n == Len(turnMsgs)
           IN  /\ Len(turnMsgs') = n + Len(kept)
               /\ SubSeq(turnMsgs', 1, n) = turnMsgs
               /\ \A i \in 1..Len(kept) :
                     LET m == turnMsgs'[n + i]
                     IN  /\ m.role = "assistant" /\ m.content = NULL
                         /\ m.agentName = agentName
                         /\ Len(m.toolCalls) = 1
                         /\ m.toolCalls[1].id = kept[i].callId
                         /\ m.toolCalls[1].name = kept[i].name
                         /\ m.toolCalls[1].arguments = kept[i].arguments
               /\ emitted' = emitted \o
                     [i \in 1..Len(kept) |-> MessageEvent(turnMsgs'[n + i])]
      ]_vars

\* a response with two recorded calls around a transfer_to_B call and a text
\* item has been consumed: two messages, in output order
C25_Witness ==
    /\ Len(consumed) >= 1
    /\ consumed[1].type = "response_done"
    /\ Len(consumed[1].output) = 4
    /\ Len(turnMsgs) >= Len(messages) + 2
    /\ turnMsgs[Len(messages) + 1].toolCalls[1].name = "lookup"
    /\ turnMsgs[Len(messages) + 2].toolCalls[1].name = "search"

\* C26 (as stated): on every path, the greeting path included, each emitted
\* assistant text message has responseType 'internal' if and only if the
\* agent named in its agentName is configured internal.
C26_VisibilityFollowsAgent ==
    \A i \in 1..Len(emitted) :
        ( /\ emitted[i].kind = "message"
          /\ emitted[i].msg.role = "assistant"
          /\ emitted[i].msg.content # NULL )
        => ( emitted[i].msg.responseType = "internal"
             <=> /\ emitted[i].msg.agentName \in DOMAIN workflow.agentConfig
                 /\ workflow.agentConfig[emitted[i].msg.agentName].outputVisibility
                        = "internal" )

\* C26 (amended): on the loop path each emitted assistant text message has
\* responseType 'internal' if and only if the agent named in its agentName
\* is configured internal, and 'external' otherwise; the greeting of the
\* greeting path is always emitted 'external' in the name of the start
\* agent, whatever that agent's configured visibility.
C26_VisibilityFollowsAgentInLoop ==
    \A i \in 1..Len(emitted) :
        ( /\ emitted[i].kind = "message"
          /\ emitted[i].msg.role = "assistant"
          /\ emitted[i].msg.content # NULL )
        => IF path = "greeting"
           THEN /\ emitted[i].msg.responseType = "external"
                /\ emitted[i].msg.agentName = workflow.startAgent
           ELSE /\ emitted[i].msg.responseType \in {"internal", "external"}
                /\ emitted[i].msg.responseType = "internal"
                   <=> /\ emitted[i].msg.agentName \in DOMAIN workflow.agentConfig
                       /\ workflow.agentConfig[emitted[i].msg.agentName].outputVisibility
                              = "internal"

\* one invocation emitted a text of an internal agent and, after the
\* hand-back, a text of a user_facing agent
C26_Witness ==
    /\ path = "loop"
    /\ \E i, j \in 1..Len(emitted) :
          /\ i < j
          /\ emitted[i].kind = "message" /\ emitted[i].msg.responseType = "internal"
          /\ emitted[j].kind = "message" /\ emitted[j].msg.responseType = "external"

(* ------------------- the stack-reconstruction runs --------------------- *)
\* caller transcripts that mix user and tool messages with assistant
\* messages of A, of B and of no agent
StackTranscripts ==
    SeqsUpTo({ UserMessage("Hi"), ToolMessage("{}", 101, "lookup"),
               AssistantMessage("earlier", "A", "external"),
               AssistantMessage("earlier", "B", "internal"),
               AssistantMessage("earlier", "", "external") }, MaxStackInputLen)

InitStack ==
    /\ workflow = ChainWorkflow
    /\ projectTools = <<>>
    /\ project = Project(NoAccounts)
    /\ dataSources = {}
    /\ conns = 0
    /\ toolRuns = <<>>
    /\ input \in StackTranscripts
    /\ InitLocals

\* streamResponse up to the first loop iteration
SpecStack == InitStack /\ [][Start]_vars

\* C27: the call stack reconstructed at the start of an invocation is the
\* sequence of the agentName values of the transcript's agent-tagged
\* assistant messages, in order, with immediate repeats collapsed (user,
\* system, tool and untagged messages contribute nothing and do not separate
\* a run of repeats); the initially active agent is the top of that stack, or
\* the start agent when it is empty, and selecting it removes it: the loop
\* starts with the reconstructed stack minus its top.
C27_CallStackReconstruction ==
    (path = "loop" /\ last = "start") =>
        LET tagged(m) == m.role = "assistant" /\ m.agentName \notin {"", "<undefined>", "<null>"}
            names == SelectSeq(input, tagged)
            firsts == { i \in 1..Len(names) :
                          i = 1 \/ names[i].agentName # names[i - 1].agentName }
            rank(i) == Cardinality({ j \in firsts : j <= i })
            whole == IF names = <<>> THEN << >> ELSE Append(stack, agentName)
        IN  /\ Len(whole) = Cardinality(firsts)
            /\ \A i \in firsts : whole[rank(i)] = names[i].agentName
            /\ \A i \in 1..(Len(whole) - 1) : whole[i] # whole[i + 1]
            /\ names = <<>> => stack = <<>> /\ agentName = workflow.startAgent

\* assistant A, a user message, assistant A again, then assistant B: the run
\* of A collapses across the user message, B is selected, A stays stacked
C27_Witness ==
    /\ path = "loop" /\ last = "start"
    /\ Len(input) = 4
    /\ input[1].agentName = "A" /\ input[2].role = "user"
    /\ input[3].agentName = "A" /\ input[4].agentName = "B"
    /\ stack = << "A" >> /\ agentName = "B"

\* C28: the greeting shortcut is taken exactly when the repaired transcript
\* has length 1 and that message is a system message. On that path nothing
\* is built and no provider is invoked: the invocation is over with the
\* greeting and the zero usage event and without error, also for a workflow
\* that fails on the normal path (a toolkit tool without auth metadata, a
\* start agent that is not among the workflow's agents).
C28_GreetingBypassesConstruction ==
    pc # "start" =>
        /\ path = "greeting" <=> (Len(messages) = 1 /\ messages[1].role = "system")
        /\ path = "greeting" =>
              /\ pc = "done"
              /\ Len(emitted) = 2
              /\ emitted[1].kind = "message" /\ emitted[1].msg.role = "assistant"
              /\ emitted[2].kind = "usage"
              /\ emitted[2].tokens = [total |-> 0, prompt |-> 0, completion |-> 0]
              /\ iter = 0 /\ inputs = <<>> /\ consumed = <<>>
              /\ turnMsgs = <<>> /\ stack = <<>> /\ agentName = "<undefined>"
              /\ toolRuns = <<>> /\ conns = 0
              /\ ~ENABLED Next

\* the greeting was given for a workflow whose Composio tool lacks its auth
\* metadata
C28_Witness ==
    /\ path = "greeting" /\ pc = "done" /\ Len(emitted) = 2
    /\ missingAuthMetadata

\* C29: in every state of the loop, whatever the input transcript (the empty
\* one included), the first message of the running transcript, and of every
\* provider input, is a system message with non-empty content; the repair
\* has run before anything else.
C29_LeadingSystemMessage ==
    /\ pc # "start" =>
          /\ Len(messages) > 0
          /\ messages[1].role = "system"
          /\ messages[1].content \notin {"", "<null>", "<undefined>"}
    /\ path = "loop" =>
          /\ Len(turnMsgs) > 0
          /\ turnMsgs[1].role = "system"
          /\ turnMsgs[1].content \notin {"", "<null>", "<undefined>"}
    /\ (path = "loop" /\ iter > 0 /\ pc # "failed") =>
          /\ Len(inputs) > 0
          /\ inputs[1].role = "system"
          /\ inputs[1].text \notin {"", "<null>", "<undefined>"}

\* C30: the merged tool configuration is last-write-wins by name. Its names
\* are exactly the names of the workflow's and the project's tool lists; a
\* name the project list defines maps to the last project-level definition
\* of it, any other name to the last workflow-level definition of it. The
\* build of the tools sees the winners only: it fails exactly when a winner
\* is a toolkit tool without auth metadata.
C30_ToolConfigLastWriteWins ==
    LET wt == workflow.tools
        pt == projectTools
        names(l) == { l[i].name : i \in 1..Len(l) }
        lastOf(l, n) == l[CHOOSE i \in 1..Len(l) :
                            l[i].name = n /\ \A j \in (i + 1)..Len(l) : l[j].name # n]
        winner(n) == IF n \in names(pt) THEN lastOf(pt, n) ELSE lastOf(wt, n)
        tc == toolConfig(workflow, projectTools)
    IN  /\ DOMAIN tc = names(wt) \cup names(pt)
        /\ \A n \in DOMAIN tc : tc[n] = winner(n)
        /\ (pc # "start" /\ path # "greeting") =>
              ( path = "build"
                <=> \E n \in names(wt) \cup names(pt) :
                       /\ ~winner(n).isMcp /\ winner(n).isComposio
                       /\ ~winner(n).composioData.present )

\* the loop runs for a workflow whose tool list defines 'mail' twice, the
\* incomplete definition first, and whose project list defines 'search' twice
C30_Witness ==
    /\ path = "loop" /\ pc = "stream"
    /\ Len(workflow.tools) = 3
    /\ workflow.tools[1].name = "mail" /\ workflow.tools[2].name = "mail"
    /\ ~workflow.tools[1].composioData.present
    /\ Len(projectTools) = 2
    /\ projectTools[1].name = "search" /\ projectTools[2].name = "search"
    /\ toolConfig(workflow, projectTools)["search"].mockTool

(* ------------------------ claims C31 to C40 ---------------------------- *)
\* C31: the tool registry holds, for a merged tool configuration with a
\* supported marker, exactly one handler: the MCP handler when isMcp is set,
\* else the Composio handler when isComposio is set, else the mock handler
\* when mockTool is set. A configuration without any marker gets no handler
\* and causes no failure: the agent that mentions it runs without it. Every
\* tool execution is one of the handler the precedence selects.
C31_ToolRegistryPrecedence ==
    LET all == workflow.tools \o projectTools
        cfg(n) == all[CHOOSE i \in 1..Len(all) : all[i].name = n]
        names == { all[i].name : i \in 1..Len(all) }
        expected(n) == IF cfg(n).isMcp THEN "mcp"
                       ELSE IF cfg(n).isComposio THEN "composio"
                       ELSE IF cfg(n).mockTool THEN "mock"
                       ELSE "none"
    IN  /\ pc # "start" => path = "loop"
        /\ \A i \in 1..Len(toolRuns) :
              toolRuns[i].kind # "rag" =>
                  /\ toolRuns[i].tool \in names
                  /\ toolRuns[i].kind = expected(toolRuns[i].tool)
        /\ (pc = "stream" /\ Len(toolRuns) = 0) =>
              \A n \in names :
                  /\ ENABLED McpTool(n, "none") <=> expected(n) = "mcp"
                  /\ ENABLED ComposioTool(n, "none") <=> expected(n) = "composio"
                  /\ ENABLED MockTool(n, "none") <=> expected(n) = "mock"

\* the tool marked MCP and Composio ran as an MCP tool, the tool marked
\* Composio and mock ran as a Composio tool, and the unmarked tool that the
\* agent mentions is in the configuration
C31_Witness ==
    /\ pc = "stream" /\ Len(toolRuns) = 2
    /\ toolRuns[1].tool = "dual" /\ toolRuns[1].kind = "mcp"
    /\ toolRuns[2].tool = "both" /\ toolRuns[2].kind = "composio"
    /\ "legacy" \in workflow.toolMentions[agentName]
    /\ \E i \in 1..Len(workflow.tools) :
          /\ workflow.tools[i].name = "legacy"
          /\ ~workflow.tools[i].isMcp /\ ~workflow.tools[i].isComposio
          /\ ~workflow.tools[i].mockTool

\* C32: no transfer pair appended or emitted has its source agent equal to
\* its target agent, and no counter entry a:a is ever non-zero, for explicit
\* handoffs and internal re-entries alike.
C32_NoSelfTransfer ==
    /\ \A i \in 1..Len(emitted) :
          ( /\ emitted[i].kind = "message"
            /\ emitted[i].msg.role = "assistant"
            /\ emitted[i].msg.content = "<null>"
            /\ Len(emitted[i].msg.toolCalls) = 1
            /\ emitted[i].msg.toolCalls[1].name = "transfer_to_agent" )
          => emitted[i].msg.toolCalls[1].arguments
                 # "{\"assistant\":\"" \o emitted[i].msg.agentName \o "\"}"
    /\ \A i \in (Len(messages) + 1)..Len(turnMsgs) :
          ( /\ turnMsgs[i].role = "assistant"
            /\ Len(turnMsgs[i].toolCalls) = 1
            /\ turnMsgs[i].toolCalls[1].name = "transfer_to_agent" )
          => turnMsgs[i].toolCalls[1].arguments
                 # "{\"assistant\":\"" \o turnMsgs[i].agentName \o "\"}"
    /\ \A a \in Agents : get(calls, a, a) = 0

\* C33: a non-greeting invocation that has terminated normally has appended
\* and emitted at least one assistant text message with 'external'
\* visibility, and that message is the last message event before the final
\* usage event: the turn is never completed on a message of the input.
C33_CompletesOnFreshExternalText ==
    (path = "loop" /\ pc = "done") =>
        /\ Len(turnMsgs) > Len(messages)
        /\ Len(emitted) >= 2
        /\ emitted[Len(emitted)].kind = "usage"
        /\ emitted[Len(emitted) - 1].kind = "message"
        /\ emitted[Len(emitted) - 1].msg.role = "assistant"
        /\ emitted[Len(emitted) - 1].msg.content # "<null>"
        /\ emitted[Len(emitted) - 1].msg.responseType = "external"
        /\ emitted[Len(emitted) - 1].msg = turnMsgs[Len(turnMsgs)]

\* C34: the caller's messages array is changed by the system-message repair
\* at the start only, which prepends at most one message or replaces one
\* blank leading content; everything produced during the turn goes to the
\* private copy, so the caller's array keeps, to the end of the invocation,
\* the length and the elements it had right after the repair.
C34_CallerArrayOnlyRepaired ==
    /\ [][pc # "start" => messages' = messages]_vars
    /\ [](pc # "start" =>
            \/ messages = input
            \/ messages = << [role |-> "system", content |-> "You are a helpful assistant.",
                              agentName |-> "<undefined>", responseType |-> "<undefined>",
                              toolCalls |-> <<>>, toolCallId |-> 0,
                              toolName |-> "<undefined>"] >> \o input
            \/ /\ Len(input) > 0 /\ input[1].content = ""
               /\ messages = [input EXCEPT ![1].content = "You are a helpful assistant."])
    /\ [](path = "loop" =>
            /\ Len(turnMsgs) >= Len(messages)
            /\ SubSeq(turnMsgs, 1, Len(messages)) = messages)

\* a finished turn appended to the private copy while the caller's array
\* holds the prepended system message and the one input message
C34_Witness ==
    /\ path = "loop" /\ pc = "done"
    /\ Len(input) = 1 /\ Len(messages) = 2
    /\ Len(turnMsgs) > Len(messages)
    /\ \E i \in 1..Len(consumed) : consumed[i].type = "tool_call_output_item"

(* ------------------------------ getResponse ---------------------------- *)
\* getResponse that collects every message event, tool results included
getResponse_allMessages(evs) ==
    LET isMessage(e) == e.kind = "message"
        isUsage(e) == e.kind = "usage"
        ms == SelectSeq(evs, isMessage)
        us == SelectSeq(evs, isUsage)
    IN  [messages |-> [i \in 1..Len(ms) |-> ms[i].msg],
         usage |-> IF us = <<>> THEN NoTokens ELSE us[Len(us)].tokens]

\* getResponse: the loop over the events of streamResponse; an event with
\* role 'assistant' is pushed on out, an event with tokens replaces usage
RECURSIVE getResponse(_)
getResponse(evs) ==
    IF evs = <<>> THEN [messages |-> <<>>, usage |-> NoTokens]
    ELSE LET r == getResponse(Front(evs))
             event == Last(evs)
         IN  [messages |-> IF event.kind = "message" /\ event.msg.role = "assistant"
                           THEN Append(r.messages, event.msg)
                           ELSE r.messages,
              usage |-> IF event.kind = "usage" THEN event.tokens ELSE r.usage]

\* getResponse returns once the generator is exhausted; an error raised by
\* streamResponse leaves the for-await loop and nothing is returned
GetResponseReturn ==
    /\ pc = "done"
    /\ ~response.returned
    /\ response' = [returned |-> TRUE, messages |-> getResponse(emitted).messages,
                    usage |-> getResponse(emitted).usage]
    /\ UNCHANGED << remote, procs, flows, project, runVars >>

\* the invocations of the three-agent workflows, made through getResponse
SpecResponse == Init /\ [][Next \/ GetResponseReturn]_vars

\* C35: what getResponse returns as messages is exactly the subsequence, in
\* emission order, of the emitted events whose role is 'assistant' (text
\* messages and tool-call messages, those of transfers included) and holds
\* no tool-role message; what it returns as usage is the last usage event
\* emitted. Nothing is returned unless the stream ended normally.
C35_GetResponseCollectsAssistantEvents ==
    response.returned =>
        LET assistant(e) == e.kind = "message" /\ e.msg.role = "assistant"
            kept == SelectSeq(emitted, assistant)
            usages == { i \in 1..Len(emitted) : emitted[i].kind = "usage" }
        IN  /\ pc = "done"
            /\ Len(response.messages) = Len(kept)
            /\ \A i \in 1..Len(kept) : response.messages[i] = kept[i].msg
            /\ \A i \in 1..Len(response.messages) : response.messages[i].role # "tool"
            /\ usages # {}
            /\ \E i \in usages :
                  /\ \A j \in usages : j <= i
                  /\ response.usage = emitted[i].tokens

\* getResponse returned the texts of an internal agent, the transfer
\* tool-call message of its hand-back and a final text, but not the transfer's
\* tool-role result that was emitted in between
C35_Witness ==
    /\ response.returned
    /\ \E i \in 1..Len(emitted) : emitted[i].kind = "message" /\ emitted[i].msg.role = "tool"
    /\ \E i \in 1..Len(response.messages) :
          /\ response.messages[i].content = "<null>"
          /\ response.messages[i].toolCalls[1].name = "transfer_to_agent"
    /\ Len(response.messages) >= 3
    /\ response.usage = emitted[Len(emitted)].tokens

\* a project with or without a stored gmail account, no call made yet
InitAccounts == InitTools /\ dataSources = {}

\* the connected-account actions of one project called one after another,
\* each call running to its end before the next starts, while the remote
\* accounts change status
NextAccounts ==
    \/ /\ \A i \in 1..Len(procs) : procs[i].at = "done"
       /\ \/ \E t \in Toolkits, id \in {"ca_1", "ca_new"} : SyncRead(t, id, 0)
          \/ \E t \in Toolkits, id \in {"ca_1", "ca_new"} : DeleteRead(t, id)
          \/ \E t \in {"gmail"}, ok \in BOOLEAN : CreateManagedOauth2ConnectedAccount(t, ok) /\ UNCHANGED flows
    \/ \E i \in 1..Len(procs) : SyncGet(i)
    \/ \E i \in 1..Len(procs) : SyncWrite(i)
    \/ \E i \in 1..Len(procs) : DeleteRemote(i)
    \/ \E i \in 1..Len(procs) : DeleteUnset(i)
    \/ \E id \in DOMAIN remote, status \in RemoteStatuses : RemoteStatusChange(id, status)

SpecAccounts == InitAccounts /\ [][NextAccounts]_vars

\* the same actions called at any time, their steps interleaved at the
\* awaits
NextRace ==
    \/ \E t \in Toolkits, id \in {"ca_1", "ca_new"} : SyncRead(t, id, 0)
    \/ \E i \in 1..Len(procs) : SyncGet(i)
    \/ \E i \in 1..Len(procs) : SyncWrite(i)
    \/ \E t \in Toolkits, id \in {"ca_1", "ca_new"} : DeleteRead(t, id)
    \/ \E i \in 1..Len(procs) : DeleteRemote(i)
    \/ \E i \in 1..Len(procs) : DeleteUnset(i)
    \/ \E t \in Toolkits, ok \in BOOLEAN : CreateManagedOauth2ConnectedAccount(t, ok) /\ UNCHANGED flows
    \/ \E id \in DOMAIN remote : RemoteStatusChange(id, "ACTIVE")

SpecRace == InitAccounts /\ [][NextRace]_vars

\* C36: the write of a syncConnectedAccount call stores INITIATED for the
\* remote statuses INITIALIZING and INITIATED, ACTIVE for ACTIVE and FAILED
\* for every other one; it goes to the record of the caller's toolkit slug
\* and to no other record, keeps the stored id, authConfigId and createdAt,
\* and keeps the stored status when the remote status maps to the status
\* already stored (the call repeated under an unchanged remote status)
C36_SyncStoresMappedStatus ==
    [][\A i \in 1..Len(procs) :
          (procs[i].op = "sync" /\ procs[i].at = "write" /\ procs'[i].at = "done") =>
              LET t == procs[i].toolkitSlug
                  r == procs[i].response.status
                  old == project.composioConnectedAccounts[t]
                  new == project'.composioConnectedAccounts[t]
              IN  /\ r \in {"INITIALIZING", "INITIATED"} => new.status = "INITIATED"
                  /\ r = "ACTIVE" => new.status = "ACTIVE"
                  /\ r \in {"FAILED", "EXPIRED", "INACTIVE"} => new.status = "FAILED"
                  /\ procs'[i].wrote = t
                  /\ \A u \in Toolkits \ {t} :
                        project'.composioConnectedAccounts[u] =
                            project.composioConnectedAccounts[u]
                  /\ new.id = old.id /\ new.id = procs[i].connectedAccountId
                  /\ new.authConfigId = old.authConfigId
                  /\ new.createdAt = old.createdAt
                  /\ old.status = (IF r \in {"INITIALIZING", "INITIATED"} THEN "INITIATED"
                                    ELSE IF r = "ACTIVE" THEN "ACTIVE" ELSE "FAILED")
                     => << new.id, new.authConfigId, new.createdAt, new.status >> =
                            << old.id, old.authConfigId, old.createdAt, old.status >>
    ]_vars

\* a sync repeated on the record of a created account while the remote
\* account has expired: both calls wrote, the record is FAILED and keeps the
\* id and the creation time the create action gave it
C36_Witness ==
    /\ Len(procs) = 2
    /\ \A i \in 1..2 : /\ procs[i].op = "sync" /\ procs[i].wrote = "gmail"
                       /\ procs[i].connectedAccountId = "ca_new"
                       /\ procs[i].account.status = "FAILED"
    /\ remote["ca_new"].state = "live" /\ remote["ca_new"].status = "EXPIRED"
    /\ project.composioConnectedAccounts["gmail"].id = "ca_new"
    /\ project.composioConnectedAccounts["gmail"].status = "FAILED"
    /\ project.composioConnectedAccounts["gmail"].createdAt = 1
    /\ project.composioConnectedAccounts["gmail"].lastUpdatedAt = 2

C38_ForeignIdIsRejected ==
    [][/\ (Len(procs') = Len(procs) + 1) =>
            LET c == procs'[Len(procs')]
                stored == project.composioConnectedAccounts[c.toolkitSlug]
            IN  (~project.exists \/ stored = NoAccount \/ stored.id # c.connectedAccountId) =>
                    /\ c.op \in {"sync", "delete"}
                    /\ c.at = "done" /\ c.result = "threw"
                    /\ c.remoteCalls = 0 /\ c.wrote = UNDEFINED
                    /\ project' = project /\ remote' = remote
       /\ \A i \in 1..Len(procs) :
            (procs[i].at = "done" /\ procs[i].result = "threw") => procs'[i] = procs[i]
    ]_vars

\* a sync called with an id other than the stored one and a delete called on
\* a toolkit without record have both thrown; the stored record and its
\* remote account are untouched
C38_Witness ==
    /\ Len(procs) = 2
    /\ procs[1].op = "sync" /\ procs[1].toolkitSlug = "gmail"
    /\ procs[1].connectedAccountId = "ca_new" /\ procs[1].account.id = "ca_1"
    /\ procs[2].op = "delete" /\ procs[2].toolkitSlug = "hackernews"
    /\ procs[2].account = NoAccount
    /\ \A i \in 1..2 : procs[i].result = "threw" /\ procs[i].remoteCalls = 0
    /\ project.composioConnectedAccounts["gmail"] = Account("ca_1", "FAILED")
    /\ remote["ca_1"].state = "live" /\ remote["ca_new"].state = "none"

\* C39: once a deleteConnectedAccount call has returned true, the record it
\* removed is not stored again (a record stored for that toolkit afterwards
\* carries the fresh id of a later create), and a stored record whose remote
\* account has been deleted belongs to a delete call that has not yet
\* reached its unset
C39_DeletedStaysDeleted ==
    /\ \A i \in 1..Len(procs) :
          (procs[i].op = "delete" /\ procs[i].result = "returned") =>
              project.composioConnectedAccounts[procs[i].toolkitSlug].id #
                  procs[i].connectedAccountId
    /\ \A t \in Toolkits :
          LET id == project.composioConnectedAccounts[t].id
          IN  (~Falsy(id) /\ remote[id].state = "deleted") =>
                  \E i \in 1..Len(procs) :
                      /\ procs[i].op = "delete" /\ procs[i].at = "unset"
                      /\ procs[i].toolkitSlug = t /\ procs[i].connectedAccountId = id

(* ToolkitAuthModal: the OAuth flows of one modal *)

\* handleComposioOAuth2 up to the end of its try block: the account is
\* created, the window is opened, the message listener and the one-second
\* poll are registered; an error response or exception of the create, or a
\* blocked popup, sets the error and registers nothing
HandleComposioOAuth2(ok, popup) ==
    /\ Len(flows) < MaxFlows
    /\ CreateManagedOauth2ConnectedAccount("gmail", ok)
    /\ flows' = Append(flows,
           [connectedAccountId |-> IF ok THEN libCreateConnectedAccount ELSE UNDEFINED,
            listener |-> ok /\ popup, interval |-> ok /\ popup, starts |-> 0,
            onComplete |-> 0, onClose |-> 0,
            error |-> IF ~ok THEN "Failed to connect to toolkit"
                      ELSE IF ~popup THEN "Failed to open authentication window"
                      ELSE NULL])

\* a timer that never clears the message listener
CheckInterval_keepListener(f) ==
    /\ flows[f].interval
    /\ flows' = [flows EXCEPT ![f] = [@ EXCEPT !.interval = FALSE, !.starts = @ + 1]]
    /\ UNCHANGED << response, remote, procs, project, runVars >>

\* one message event on the window: every registered handleMessage sees it.
\* A message of another origin or of another type is dropped; an
\* OAUTH_COMPLETE message makes the handler remove itself and clear its
\* timer, and then start the completion handler when it reports success,
\* or set the error
HandleMessage(origin, type, success) ==
    /\ \E f \in 1..Len(flows) : flows[f].listener
    /\ flows' = [f \in 1..Len(flows) |->
           IF flows[f].listener /\ origin = "self" /\ type = "OAUTH_COMPLETE"
           THEN IF success
                THEN [flows[f] EXCEPT !.listener = FALSE, !.interval = FALSE,
                                      !.starts = @ + 1]
                ELSE [flows[f] EXCEPT !.listener = FALSE, !.interval = FALSE,
                                      !.error = "OAuth authentication failed"]
           ELSE flows[f]]
    /\ UNCHANGED << response, remote, procs, project, runVars >>

\* a tick of the timer that finds the window closed: the timer clears
\* itself, removes the message listener and starts the completion handler
CheckInterval(f) ==
    /\ flows[f].interval
    /\ flows' = [flows EXCEPT ![f] = [@ EXCEPT !.interval = FALSE, !.listener = FALSE,
                                               !.starts = @ + 1]]
    /\ UNCHANGED << response, remote, procs, project, runVars >>

\* handleOAuthCompletion after its await: onComplete and onClose when the
\* sync returned, the error when it threw
HandleOAuthCompletion(f) ==
    /\ flows[f].onComplete = 0
    /\ flows[f].error = NULL
    /\ \E i \in 1..Len(procs) :
          /\ procs[i].owner = f /\ procs[i].at = "done"
          /\ flows' = [flows EXCEPT ![f] =
                 IF procs[i].result = "returned"
                 THEN [@ EXCEPT !.onComplete = @ + 1, !.onClose = @ + 1]
                 ELSE [@ EXCEPT !.error = "failed to sync status"]]
    /\ UNCHANGED << response, remote, procs, project, runVars >>

\* the flows of one modal on toolkit gmail: the events of the browser in any
\* order, the sync of a started completion handler running on the server
NextModal ==
    \/ \E ok \in BOOLEAN, popup \in BOOLEAN : HandleComposioOAuth2(ok, popup)
    \/ \E origin \in {"self", "other"}, type \in {"OAUTH_COMPLETE", "other"},
          success \in BOOLEAN : HandleMessage(origin, type, success)
    \/ \E f \in 1..Len(flows) : CheckInterval(f)
    \/ \E f \in 1..Len(flows) :
          /\ Cardinality({ i \in 1..Len(procs) : procs[i].owner = f }) < flows[f].starts
          /\ SyncRead("gmail", flows[f].connectedAccountId, f)
    \/ \E i \in 1..Len(procs) : SyncGet(i)
    \/ \E i \in 1..Len(procs) : SyncWrite(i)
    \/ \E f \in 1..Len(flows) : HandleOAuthCompletion(f)
    \/ \E id \in DOMAIN remote, status \in {"ACTIVE", "FAILED"} : RemoteStatusChange(id, status)

SpecModal == InitAccounts /\ [][NextModal]_vars

\* C40: in every flow the completion handler is started at most once and
\* makes at most one sync call; the listener and the timer are registered
\* and removed together, and both are gone once the handler has started; a
\* flow whose message reported failure has started no handler; onComplete
\* and onClose are called once each at most, and only by a flow whose sync
\* returned; a message of another origin changes nothing
C40_CompletionRunsOnce ==
    /\ [](\A f \in 1..Len(flows) :
            /\ flows[f].starts <= 1
            /\ Cardinality({ i \in 1..Len(procs) : procs[i].owner = f }) <= flows[f].starts
            /\ flows[f].listener = flows[f].interval
            /\ flows[f].starts = 1 => ~flows[f].listener
            /\ flows[f].error = "OAuth authentication failed" => flows[f].starts = 0
            /\ flows[f].onComplete <= 1 /\ flows[f].onClose = flows[f].onComplete
            /\ flows[f].onComplete = 1 =>
                  \E i \in 1..Len(procs) : procs[i].owner = f /\ procs[i].result = "returned")
    /\ [][(\E type \in {"OAUTH_COMPLETE", "other"}, success \in BOOLEAN :
               HandleMessage("other", type, success)) => UNCHANGED vars]_vars

\* two flows were started from the modal; one success message reached both
\* listeners: the sync of the first flow threw because its account is no
\* longer the stored one, the sync of the second returned and only that flow
\* called onComplete and onClose
C40_Witness ==
    /\ Len(flows) = 2
    /\ \A f \in 1..2 : flows[f].starts = 1 /\ ~flows[f].listener /\ ~flows[f].interval
    /\ flows[1].onComplete = 0 /\ flows[1].error = "failed to sync status"
    /\ flows[2].onComplete = 1 /\ flows[2].onClose = 1 /\ flows[2].error = NULL
    /\ \E i, j \in 1..Len(procs) :
          /\ procs[i].owner = 1 /\ procs[i].result = "threw"
          /\ procs[j].owner = 2 /\ procs[j].result = "returned"

====
